---- MODULE Spec2Model ----
(***************************************************************************)
(* Descriptor-ring engine of the igb driver (Intel 82576): the TX ring of  *)
(* ring/tx.rs and the RX posting / completion path of ring/mod.rs,         *)
(* ring/rx.rs and ring.rs, together with the NIC's DMA engine as the one   *)
(* concurrent agent.                                                       *)
(*                                                                         *)
(* Descriptor memory is modelled in two layers: `*_desc` is what the       *)
(* device sees in DMA memory, `*_wbuf` holds CPU stores to descriptor      *)
(* slots that have not yet become visible to the device.  mb() makes every *)
(* pending store visible; a pending store may also become visible on its   *)
(* own at any time.                                                        *)
(*                                                                         *)
(* TxRing and RxRing are separate handles over separate register blocks    *)
(* and separate descriptor memory; a behaviour exercises one of the two,   *)
(* chosen in Init (`queue`).                                               *)
(***************************************************************************)
EXTENDS Integers, Sequences, FiniteSets, TLC

\* ------------------------------------------------------------------ bounds
\* Number of descriptor slots of the TX ring (`size` of TxRing::new).
TxCount == 3
\* Number of descriptor slots of the RX ring (`size` of RxRing::new).
RxCount == 3
\* Number of requests the caller submits with TxRing::send.
MaxSends == 4
\* Number of RxRing::recv calls.
MaxRecvs == 2
\* Largest recv buffer, in packets of PACKET_SIZE bytes.
MaxPkts == 3
\* Descriptors the device may have fetched (head advanced) but not yet
\* written back.
MaxWbLag == 2
\* Number of PHY routines the caller runs one after another.
MaxPhyOps == 2
\* Number of interrupt routines the caller runs one after another.
MaxIrqOps == 3
\* Largest try_count wait_for is called with on its own.
MaxTry == 2
\* Longest command list a TX descriptor is built with.
MaxCmds == 3

\* ------------------------------------------------------- program constants
PACKET_SIZE_KB == 2
PACKET_SIZE == PACKET_SIZE_KB * 1024

\* Request lengths the caller tries: a minimum frame, exactly pkt_size, and
\* one byte more.
Lens == {60, PACKET_SIZE, PACKET_SIZE + 1}

\* Option<T>: None is the empty sequence, Some(x) a one-element sequence.
None == <<>>
Some(x) == <<x>>

Pow2(n) == 2 ^ n

\* a mod n of a possibly negative difference
Mod(a, n) == ((a % n) + n) % n

\* slot i lies in the half-open ring interval [a, b) modulo n
InRange(a, b, i, n) == Mod(i - a, n) < Mod(b - a, n)

IsPrefix(s, t) == Len(s) <= Len(t) /\ \A k \in 1 .. Len(s) : s[k] = t[k]

VARIABLES
  queue,        \* which part of the driver this behaviour exercises: "tx", "rx",
                \* "ctl", "irq", "gpie" or "desc"
  \* ---- TX ring (ring/tx.rs RingInner) and its registers
  TDH,          \* TX descriptor head register (written by the device)
  TDT,          \* TX descriptor tail register (written by send_packet)
  finished,     \* RingInner.finished: the reclaim cursor
  tx_desc,      \* descriptors as the device sees them
  tx_wbuf,      \* pending CPU stores to descriptor slots
  tx_meta,      \* meta_ls[i].request : Option<Request>
  tx_pc,        \* position of the caller inside send_packet
  tx_cur,       \* locals of the send_packet call in progress
  tx_res,       \* result of the last send call
  nf_res,       \* result of the last next_finished call
  hw_txwb,      \* device: next TX slot to write back
  sent,         \* history: requests accepted by send, in order
  returned,     \* history: requests returned by next_finished, in order
  tx_owned,     \* history: slots posted and not yet written back
  qf_res,       \* what is_queue_full told the caller since the last send
  \* ---- RX ring (ring.rs / ring/mod.rs Ring<AdvRxDesc>) and its registers
  RDH,          \* RX descriptor head register (written by the device)
  RDT,          \* RX descriptor tail register (written by rcv_buff)
  current_head, \* Ring.current_head: the consume cursor
  ring_head,    \* Ring.ring_head (hw_head): head cached by clean()
  rx_desc,      \* descriptors as the device sees them
  rx_wbuf,      \* pending CPU stores to descriptor slots
  rx_meta,      \* meta_ls[i].buff_ptr
  rx_pc,        \* position of the caller inside recv
  rx_cur,       \* locals of the recv call in progress
  rx_res,       \* what the last recv step reported
  hw_rxwb,      \* device: next RX slot to write back
  rx_hwdone,    \* history: write-backs the device made since the last post
  rx_recvs,     \* history: number of recv calls made
  \* ---- control plane (lib.rs Igb, mac.rs Mac, phy.rs Phy, ring init)
  mac,          \* MAC registers: CTRL, EIMS, EICR, RCTL, TCTL, MDIC, GPIE
  phy,          \* the PHY behind MDIC: PCTRL, PSTATUS, transaction in flight
  qen,          \* RXDCTL / TXDCTL: ENABLE as written and as the device reports it
  stack,        \* call stack of the operation in progress (innermost first);
                \* a frame holds the function, its position, its loop index,
                \* its arguments and the u16 it works on
  ret,          \* Result handed back by the call that returned last
  ctl_res,      \* Result of the last top-level call
  wlog,         \* history: register writes of the current top-level call
  polls,        \* history: closure evaluations of the current wait_for
  sleeps,       \* history: sleeps of the current wait_for
  mdic_hist,    \* history: MDIC commands written while one was in flight
  ctl_calls,    \* history: number of top-level calls made
  ring_mem,     \* descriptor rings and packet buffers: "live" or "freed"
  irq_msg,      \* the IrqMsg interrupts_ack returned last
  irq_off,      \* history: disable_interrupts returned, enable_interrupts not
                \* called since
  \* ---- descriptor formats (descriptor.rs)
  pure          \* the constructor / parser applied, its arguments and value

txvars == <<TDH, TDT, finished, tx_desc, tx_wbuf, tx_meta, tx_pc, tx_cur,
            tx_res, nf_res, hw_txwb, sent, returned, tx_owned, qf_res>>
rxvars == <<RDH, RDT, current_head, ring_head, rx_desc, rx_wbuf, rx_meta,
            rx_pc, rx_cur, rx_res, hw_rxwb, rx_hwdone, rx_recvs>>
ctlvars == <<mac, phy, qen, stack, ret, ctl_res, wlog, polls, sleeps,
             mdic_hist, ctl_calls, ring_mem, irq_msg, irq_off>>
vars == <<queue, txvars, rxvars, ctlvars, pure>>

TxSlots == 0 .. TxCount - 1
RxSlots == 0 .. RxCount - 1

\* ------------------------------------------------------------ store buffer
\* What the CPU reads at slot i: its own pending store if there is one.
View(mem, buf) == [i \in DOMAIN mem |-> IF buf[i] # None THEN buf[i][1] ELSE mem[i]]

NoStores(mem) == [i \in DOMAIN mem |-> None]

\* A barrier that orders nothing: pending stores stay pending.
mb_skipped(mem, buf) == [mem |-> mem, buf |-> buf]
\* mbarrier::mb(): every earlier store is visible to the device afterwards.
mb(mem, buf) == [mem |-> View(mem, buf), buf |-> NoStores(mem)]

\* ------------------------------------------------------------- descriptors
\* AdvTxDesc is a union: read {buffer_addr, cmd_type_len, olinfo_status} and
\* write-back {rsvd, nxtseq_seed, status} share the same 16 bytes, so the
\* write-back `status` word is the read format's `olinfo_status` word.
TxDescZero == [buffer_addr |-> 0, cmd_type_len |-> 0, olinfo_status |-> 0]

TxCmdBit(c) ==
  CASE c = "EOP" -> 24
    [] c = "IFCS" -> 25
    [] c = "IC" -> 26
    [] c = "RS" -> 27
    [] c = "DEXT" -> 29
    [] c = "VLE" -> 30
    [] c = "IDE" -> 31

\* FieldValue `+=` of a one-bit field: bitwise or.  A u32 is held as the
\* 32-bit two's-complement integer with the same bits: bit 31 is the sign.
SetBit(v, b) ==
  IF b = 31
    THEN IF v < 0 THEN v ELSE (v - Pow2(30)) - Pow2(30)
    ELSE IF (v \div Pow2(b)) % 2 = 1 THEN v ELSE v + Pow2(b)

\* A fold that stops after the first command.
TxCmdFold_first(v, cmd_ls) ==
  IF cmd_ls = <<>> THEN v ELSE SetBit(v, TxCmdBit(Head(cmd_ls)))

RECURSIVE TxCmdFold(_, _)
TxCmdFold(v, cmd_ls) ==
  IF cmd_ls = <<>> THEN v
  ELSE TxCmdFold(SetBit(v, TxCmdBit(Head(cmd_ls))), Tail(cmd_ls))

TxDType(kind) == IF kind = "Data" THEN 3 ELSE 2

\* A constructor that stores its first two arguments in each other's field.
AdvTxDescNew_swapped(buffer_addr, buffer_len, kind, cmd_ls) ==
  [buffer_addr |-> buffer_len,
   cmd_type_len |-> TxCmdFold((buffer_addr % Pow2(20)) + TxDType(kind) * Pow2(20), cmd_ls),
   olinfo_status |-> 0]
\* AdvTxDesc::new: buffer_addr, cmd_type_len = LEN | DTYPE | cmd bits,
\* olinfo_status = 0.
AdvTxDescNew(buffer_addr, buffer_len, kind, cmd_ls) ==
  [buffer_addr |-> buffer_addr,
   cmd_type_len |-> TxCmdFold((buffer_len % Pow2(20)) + TxDType(kind) * Pow2(20), cmd_ls),
   olinfo_status |-> 0]

\* A done test that takes any status bit for DD.
TxIsDone_any(d) == d.olinfo_status # 0
\* AdvTxDescWB::is_done: status & TX_DESC_STATUS::DD.mask != 0
TxIsDone(d) == (d.olinfo_status % 2) # 0

\* Request::bus_addr(): the DMA address of the request's buffer; distinct
\* requests own distinct buffers.
BusAddr(r) == r.id * 4096

\* ------------------------------------------------------------ TX: software
\* send_packet: `next_tail = (tail + 1) % self.count()`
NextTail(tail) == (tail + 1) % TxCount

\* A length test that also rejects a buffer of exactly PACKET_SIZE bytes.
Oversized_ge(len) == len >= PACKET_SIZE
\* send_packet: `request.buff.len() > PACKET_SIZE`
Oversized(len) == len > PACKET_SIZE

\* A full test that compares the tail itself with the head.
QueueFull_tail(tail, head) == tail = head
\* send_packet: `next_tail == head`
QueueFull(tail, head) == NextTail(tail) = head

\* The slot send_packet writes the descriptor and the request into.
SendSlot(cur) == cur.tail

TxIdleCur == [request |-> [id |-> 0, len |-> 0], tail |-> 0, next_tail |-> 0]

\* TxRing::send(request) is entered.
SendCall(len) ==
  /\ queue = "tx"
  /\ UNCHANGED <<queue, rxvars, ctlvars, pure>>
  /\ tx_pc = "idle"
  /\ Len(sent) < MaxSends
  /\ tx_pc' = "check"
  /\ tx_cur' = [TxIdleCur EXCEPT !.request = [id |-> Len(sent) + 1, len |-> len]]
  /\ tx_res' = "none"
  /\ UNCHANGED <<TDH, TDT, finished, tx_desc, tx_wbuf, tx_meta, nf_res,
                 hw_txwb, sent, returned, tx_owned, qf_res>>

\* A send that stores the descriptor and the request before it looks for
\* room.
SendCheck_store_first ==
  /\ queue = "tx"
  /\ UNCHANGED <<queue, rxvars, ctlvars, pure>>
  /\ tx_pc = "check"
  /\ tx_wbuf' = [tx_wbuf EXCEPT ![TDT] = Some(TxDescZero)]
  /\ tx_meta' = [tx_meta EXCEPT ![TDT] = Some(tx_cur.request)]
  /\ IF Oversized(tx_cur.request.len)
       THEN /\ tx_res' = "InvalidParameter"
            /\ tx_pc' = "idle"
            /\ tx_cur' = TxIdleCur
       ELSE IF QueueFull(TDT, TDH)
       THEN /\ tx_res' = "NoMemory"
            /\ tx_pc' = "idle"
            /\ tx_cur' = TxIdleCur
       ELSE /\ tx_res' = "none"
            /\ tx_pc' = "write"
            /\ tx_cur' = [tx_cur EXCEPT !.tail = TDT, !.next_tail = NextTail(TDT)]
  /\ qf_res' = "none"
  /\ UNCHANGED <<TDH, TDT, finished, tx_desc, nf_res,
                 hw_txwb, sent, returned, tx_owned>>
\* send_packet, lines 89-101: the length check, the reads of TDT and TDH and
\* the queue-full check.
SendCheck ==
  /\ queue = "tx"
  /\ UNCHANGED <<queue, rxvars, ctlvars, pure>>
  /\ tx_pc = "check"
  /\ IF Oversized(tx_cur.request.len)
       THEN /\ tx_res' = "InvalidParameter"
            /\ tx_pc' = "idle"
            /\ tx_cur' = TxIdleCur
       ELSE IF QueueFull(TDT, TDH)
       THEN /\ tx_res' = "NoMemory"
            /\ tx_pc' = "idle"
            /\ tx_cur' = TxIdleCur
       ELSE /\ tx_res' = "none"
            /\ tx_pc' = "write"
            /\ tx_cur' = [tx_cur EXCEPT !.tail = TDT, !.next_tail = NextTail(TDT)]
  /\ qf_res' = "none"
  /\ UNCHANGED <<TDH, TDT, finished, tx_desc, tx_wbuf, tx_meta, nf_res,
                 hw_txwb, sent, returned, tx_owned>>

\* send_packet, lines 104-117: build the data descriptor, store it into the
\* slot and move the request into the slot's meta entry.
SendWrite ==
  /\ queue = "tx"
  /\ UNCHANGED <<queue, rxvars, ctlvars, pure>>
  /\ tx_pc = "write"
  /\ LET desc == AdvTxDescNew(BusAddr(tx_cur.request), tx_cur.request.len,
                              "Data", <<"EOP", "RS", "IFCS", "DEXT">>)
         slot == SendSlot(tx_cur)
     IN /\ tx_wbuf' = [tx_wbuf EXCEPT ![slot] = Some(desc)]
        /\ tx_meta' = [tx_meta EXCEPT ![slot] = Some(tx_cur.request)]
  /\ tx_pc' = "mb"
  /\ UNCHANGED <<TDH, TDT, finished, tx_desc, tx_cur, tx_res, nf_res,
                 hw_txwb, sent, returned, tx_owned, qf_res>>

\* send_packet, line 120: mb()
SendBarrier ==
  /\ queue = "tx"
  /\ UNCHANGED <<queue, rxvars, ctlvars, pure>>
  /\ tx_pc = "mb"
  /\ LET m == mb(tx_desc, tx_wbuf)
     IN /\ tx_desc' = m.mem
        /\ tx_wbuf' = m.buf
  /\ tx_pc' = "tail"
  /\ UNCHANGED <<TDH, TDT, finished, tx_meta, tx_cur, tx_res, nf_res,
                 hw_txwb, sent, returned, tx_owned, qf_res>>

\* send_packet, lines 123-125: write TDT and return Ok.
SendTail ==
  /\ queue = "tx"
  /\ UNCHANGED <<queue, rxvars, ctlvars, pure>>
  /\ tx_pc = "tail"
  /\ TDT' = tx_cur.next_tail
  /\ tx_res' = "Ok"
  /\ tx_pc' = "idle"
  /\ tx_cur' = TxIdleCur
  /\ sent' = Append(sent, tx_cur.request)
  /\ tx_owned' = tx_owned \cup {tx_cur.tail}
  /\ UNCHANGED <<TDH, finished, tx_desc, tx_wbuf, tx_meta, nf_res, hw_txwb,
                 returned, qf_res>>

\* An is_queue_full that never reports a full ring.
is_queue_full_never(head, tail) == FALSE
\* TxRing::is_queue_full: `(tail + 1) % self.this().count() == head`
is_queue_full(head, tail) == (tail + 1) % TxCount = head

\* TxRing::is_queue_full is called: it reads TDH, then TDT.
IsQueueFull ==
  /\ queue = "tx"
  /\ UNCHANGED <<queue, rxvars, ctlvars, pure>>
  /\ tx_pc = "idle"
  /\ qf_res = "none"
  /\ Len(sent) < MaxSends
  /\ qf_res' = IF is_queue_full(TDH, TDT) THEN "full" ELSE "free"
  /\ UNCHANGED <<TDH, TDT, finished, tx_desc, tx_wbuf, tx_meta, tx_pc, tx_cur,
                 tx_res, nf_res, hw_txwb, sent, returned, tx_owned>>

\* RingInner::next_finished (TxRing::next_finished)
NextFinished ==
  /\ queue = "tx"
  /\ UNCHANGED <<queue, rxvars, ctlvars, pure>>
  /\ tx_pc = "idle"
  /\ LET head == TDH
         index == finished
         desc == View(tx_desc, tx_wbuf)[index]
     IN IF finished = head \/ ~TxIsDone(desc)
          THEN /\ nf_res' = None
               /\ UNCHANGED <<finished, tx_meta, returned, tx_pc>>
          ELSE IF tx_meta[index] = None
          THEN \* .expect("Request should be set") panics
               /\ tx_pc' = "panic"
               /\ UNCHANGED <<finished, tx_meta, returned, nf_res>>
          ELSE /\ nf_res' = tx_meta[index]
               /\ tx_meta' = [tx_meta EXCEPT ![index] = None]
               /\ finished' = (finished + 1) % TxCount
               /\ returned' = Append(returned, tx_meta[index][1])
               /\ UNCHANGED tx_pc
  /\ UNCHANGED <<TDH, TDT, tx_desc, tx_wbuf, tx_cur, tx_res, hw_txwb, sent,
                 tx_owned, qf_res>>

\* A pending descriptor store becomes visible to the device.
TxDrain(i) ==
  /\ queue = "tx"
  /\ UNCHANGED <<queue, rxvars, ctlvars, pure>>
  /\ tx_wbuf[i] # None
  /\ tx_desc' = [tx_desc EXCEPT ![i] = tx_wbuf[i][1]]
  /\ tx_wbuf' = [tx_wbuf EXCEPT ![i] = None]
  /\ UNCHANGED <<TDH, TDT, finished, tx_meta, tx_pc, tx_cur, tx_res, nf_res,
                 hw_txwb, sent, returned, tx_owned, qf_res>>

\* -------------------------------------------------------------- TX: device
\* The device fetches the descriptor at TDH, transmits its buffer and
\* advances TDH; it only fetches slots in [TDH, TDT).
HwTxLag == Mod(TDH - hw_txwb, TxCount)

HwTxAdvance ==
  /\ queue = "tx"
  /\ UNCHANGED <<queue, rxvars, ctlvars, pure>>
  /\ TDH # TDT
  /\ HwTxLag < MaxWbLag
  /\ HwTxLag < TxCount - 1
  /\ TDH' = (TDH + 1) % TxCount
  /\ UNCHANGED <<TDT, finished, tx_desc, tx_wbuf, tx_meta, tx_pc, tx_cur,
                 tx_res, nf_res, hw_txwb, sent, returned, tx_owned, qf_res>>

\* Write-back of a processed descriptor (RS is set, WTHRESH = 1): the 16
\* bytes are replaced by the write-back format with status.DD = 1.
TxWriteBackDesc == [buffer_addr |-> 0, cmd_type_len |-> 0, olinfo_status |-> 1]

HwTxWriteBack ==
  /\ queue = "tx"
  /\ UNCHANGED <<queue, rxvars, ctlvars, pure>>
  /\ hw_txwb # TDH
  /\ tx_desc' = [tx_desc EXCEPT ![hw_txwb] = TxWriteBackDesc]
  /\ hw_txwb' = (hw_txwb + 1) % TxCount
  /\ tx_owned' = tx_owned \ {hw_txwb}
  /\ UNCHANGED <<TDH, TDT, finished, tx_wbuf, tx_meta, tx_pc, tx_cur, tx_res,
                 nf_res, sent, returned, qf_res>>

TxInit ==
  /\ TDH = 0
  /\ TDT = 0
  /\ finished = 0
  /\ tx_desc = [i \in TxSlots |-> TxDescZero]
  /\ tx_wbuf = [i \in TxSlots |-> None]
  /\ tx_meta = [i \in TxSlots |-> None]
  /\ tx_pc = "idle"
  /\ tx_cur = TxIdleCur
  /\ tx_res = "none"
  /\ nf_res = None
  /\ hw_txwb = 0
  /\ sent = <<>>
  /\ returned = <<>>
  /\ tx_owned = {}
  /\ qf_res = "none"

TxNext ==
  \/ \E len \in Lens : SendCall(len)
  \/ SendCheck
  \/ SendWrite
  \/ SendBarrier
  \/ SendTail
  \/ IsQueueFull
  \/ NextFinished
  \/ \E i \in TxSlots : TxDrain(i)
  \/ HwTxAdvance
  \/ HwTxWriteBack

\* ------------------------------------------------------------ RX: software
\* AdvRxDesc is a union: read {pkt_addr, hdr_addr} and write-back
\* {lo_dword, hi_dword} share the same 16 bytes; hi_dword.fields is
\* {error_type_status: u32, vlan_length: u32}, little-endian, so
\* error_type_status is the low half of the read format's hdr_addr and
\* vlan_length its high half.  The second 64-bit word is kept as these two
\* 32-bit halves.
RxDescZero == [pkt_addr |-> 0, error_type_status |-> 0, vlan_length |-> 0]

\* AdvRxDesc { read: AdvRxDescRead { pkt_addr, hdr_addr: 0 } }
RxReadDesc(pkt_addr) ==
  [pkt_addr |-> pkt_addr, error_type_status |-> 0, vlan_length |-> 0]

\* A done test with the sense of the DD bit inverted.
is_descriptor_done_inverted(descs, desc_index) ==
  IF desc_index >= RxCount THEN FALSE
  ELSE (descs[desc_index].error_type_status % 2) = 0
\* Ring::is_descriptor_done:
\* desc_index < len and error_type_status & DD_BIT != 0
is_descriptor_done(descs, desc_index) ==
  IF desc_index >= RxCount THEN FALSE
  ELSE (descs[desc_index].error_type_status % 2) # 0

\* The caller's buffer of recv call `id`: its address as the CPU sees it and
\* as the device sees it (DSliceMut::bus_addr).
RxBufPtr(id) == id * 65536
RxBusAddr(ptr) == ptr + Pow2(24)

RxIdleCur == [id |-> 0, k |-> 0, start |-> 0, i |-> 0, n |-> 0]

\* rcv_buff's loop: the slot written in iteration j, starting from RDT
RcvSlot(start, j) == (start + j) % RxCount

\* RxRing::recv(buff) is entered with a buffer of k * PACKET_SIZE bytes.
RecvCall(k) ==
  /\ queue = "rx"
  /\ UNCHANGED <<queue, txvars, ctlvars, pure>>
  /\ rx_pc = "idle"
  /\ rx_recvs < MaxRecvs
  /\ rx_recvs' = rx_recvs + 1
  /\ rx_res' = "none"
  /\ rx_cur' = [RxIdleCur EXCEPT !.id = rx_recvs + 1, !.k = k]
  /\ rx_pc' = "post"
  /\ UNCHANGED <<RDH, RDT, current_head, ring_head, rx_desc, rx_wbuf, rx_meta,
                 hw_rxwb, rx_hwdone>>

\* rcv_buff, lines 292-313: the two assertions, the read of RDT and the loop
\* that writes one read-format descriptor per PACKET_SIZE bytes of the buffer.
RcvPost ==
  /\ queue = "rx"
  /\ UNCHANGED <<queue, txvars, ctlvars, pure>>
  /\ rx_pc = "post"
  /\ IF rx_cur.k * PACKET_SIZE < PACKET_SIZE
       THEN \* assert!(buff.len() >= PACKET_SIZE) panics
            /\ rx_pc' = "panic"
            /\ UNCHANGED <<rx_wbuf, rx_meta, rx_cur>>
       ELSE LET start == RDT
                k == rx_cur.k
                ptr == RxBufPtr(rx_cur.id)
                Written == {RcvSlot(start, j) : j \in 0 .. k - 1}
                \* the last iteration that wrote slot s
                Last(s) == CHOOSE j \in 0 .. k - 1 :
                             /\ RcvSlot(start, j) = s
                             /\ \A j2 \in 0 .. k - 1 :
                                  RcvSlot(start, j2) = s => j2 <= j
            IN /\ rx_wbuf' = [s \in RxSlots |->
                    IF s \in Written
                      THEN Some(RxReadDesc(RxBusAddr(ptr) + Last(s) * PACKET_SIZE))
                      ELSE rx_wbuf[s]]
               /\ rx_meta' = [s \in RxSlots |->
                    IF s \in Written THEN ptr + Last(s) * PACKET_SIZE
                    ELSE rx_meta[s]]
               /\ rx_cur' = [rx_cur EXCEPT !.start = start,
                                           !.i = RcvSlot(start, k)]
               /\ rx_pc' = "mb"
  /\ UNCHANGED <<RDH, RDT, current_head, ring_head, rx_desc, rx_res, hw_rxwb,
                 rx_hwdone, rx_recvs>>

\* rcv_buff, line 314: mb()
RcvBarrier ==
  /\ queue = "rx"
  /\ UNCHANGED <<queue, txvars, ctlvars, pure>>
  /\ rx_pc = "mb"
  /\ LET m == mb(rx_desc, rx_wbuf)
     IN /\ rx_desc' = m.mem
        /\ rx_wbuf' = m.buf
  /\ rx_pc' = "tail"
  /\ UNCHANGED <<RDH, RDT, current_head, ring_head, rx_meta, rx_cur, rx_res,
                 hw_rxwb, rx_hwdone, rx_recvs>>

\* rcv_buff, lines 315-317: write RDT and return Ok; recv then creates
\* RcvFuture { n: 0 } and awaits it.
RcvTail ==
  /\ queue = "rx"
  /\ UNCHANGED <<queue, txvars, ctlvars, pure>>
  /\ rx_pc = "tail"
  /\ RDT' = rx_cur.i
  /\ rx_res' = "Ok"
  /\ rx_hwdone' = 0
  /\ rx_pc' = "poll"
  /\ UNCHANGED <<RDH, current_head, ring_head, rx_desc, rx_wbuf, rx_meta,
                 rx_cur, hw_rxwb, rx_recvs>>

\* RcvFuture::poll: one iteration of its loop, or the exit of the loop with
\* Poll::Ready or Poll::Pending.  A Pending future is polled again later.
Poll ==
  /\ queue = "rx"
  /\ UNCHANGED <<queue, txvars, ctlvars, pure>>
  /\ rx_pc = "poll"
  /\ IF /\ rx_cur.n < rx_cur.k * PACKET_SIZE
        /\ current_head # ring_head
        /\ is_descriptor_done(View(rx_desc, rx_wbuf), current_head)
       THEN /\ current_head' = IF current_head + 1 >= RxCount THEN 0
                               ELSE current_head + 1
            /\ rx_cur' = [rx_cur EXCEPT !.n = @ + PACKET_SIZE]
            /\ UNCHANGED <<rx_pc, rx_res>>
       ELSE IF rx_cur.n = rx_cur.k * PACKET_SIZE
       THEN /\ rx_res' = "Ready"
            /\ rx_pc' = "idle"
            /\ UNCHANGED <<current_head, rx_cur>>
       ELSE /\ rx_res' = "Pending"
            /\ UNCHANGED <<current_head, rx_cur, rx_pc>>
  /\ UNCHANGED <<RDH, RDT, ring_head, rx_desc, rx_wbuf, rx_meta, hw_rxwb,
                 rx_hwdone, rx_recvs>>

\* Ring::clean: refresh the cached hardware head from RDH.  Nothing in the
\* driver calls it; an embedder may, between two ring operations.
Clean ==
  /\ queue = "rx"
  /\ UNCHANGED <<queue, txvars, ctlvars, pure>>
  /\ rx_pc \in {"idle", "poll"}
  /\ ring_head' = RDH
  /\ UNCHANGED <<RDH, RDT, current_head, rx_desc, rx_wbuf, rx_meta, rx_pc,
                 rx_cur, rx_res, hw_rxwb, rx_hwdone, rx_recvs>>

\* A pending descriptor store becomes visible to the device.
RxDrain(i) ==
  /\ queue = "rx"
  /\ UNCHANGED <<queue, txvars, ctlvars, pure>>
  /\ rx_wbuf[i] # None
  /\ rx_desc' = [rx_desc EXCEPT ![i] = rx_wbuf[i][1]]
  /\ rx_wbuf' = [rx_wbuf EXCEPT ![i] = None]
  /\ UNCHANGED <<RDH, RDT, current_head, ring_head, rx_meta, rx_pc, rx_cur,
                 rx_res, hw_rxwb, rx_hwdone, rx_recvs>>

\* -------------------------------------------------------------- RX: device
\* The device takes the descriptor at RDH for an arriving frame and advances
\* RDH; it only takes slots in [RDH, RDT).
HwRxLag == Mod(RDH - hw_rxwb, RxCount)

HwRxAdvance ==
  /\ queue = "rx"
  /\ UNCHANGED <<queue, txvars, ctlvars, pure>>
  /\ RDH # RDT
  /\ HwRxLag < MaxWbLag
  /\ HwRxLag < RxCount - 1
  /\ RDH' = (RDH + 1) % RxCount
  /\ UNCHANGED <<RDT, current_head, ring_head, rx_desc, rx_wbuf, rx_meta,
                 rx_pc, rx_cur, rx_res, hw_rxwb, rx_hwdone, rx_recvs>>

\* Write-back of a used descriptor: error_type_status = DD | EOP,
\* vlan_length = a 60-byte frame.
RxWriteBackDesc == [pkt_addr |-> 0, error_type_status |-> 3, vlan_length |-> 60]

HwRxWriteBack ==
  /\ queue = "rx"
  /\ UNCHANGED <<queue, txvars, ctlvars, pure>>
  /\ hw_rxwb # RDH
  /\ rx_desc' = [rx_desc EXCEPT ![hw_rxwb] = RxWriteBackDesc]
  /\ hw_rxwb' = (hw_rxwb + 1) % RxCount
  /\ rx_hwdone' = rx_hwdone + 1
  /\ UNCHANGED <<RDH, RDT, current_head, ring_head, rx_wbuf, rx_meta, rx_pc,
                 rx_cur, rx_res, rx_recvs>>

RxInit ==
  /\ RDH = 0
  /\ RDT = 0
  /\ current_head = 0
  /\ ring_head = 0
  /\ rx_desc = [i \in RxSlots |-> RxDescZero]
  /\ rx_wbuf = [i \in RxSlots |-> None]
  /\ rx_meta = [i \in RxSlots |-> 0]
  /\ rx_pc = "idle"
  /\ rx_cur = RxIdleCur
  /\ rx_res = "none"
  /\ hw_rxwb = 0
  /\ rx_hwdone = 0
  /\ rx_recvs = 0

RxNext ==
  \/ \E k \in 0 .. MaxPkts : RecvCall(k)
  \/ RcvPost
  \/ RcvBarrier
  \/ RcvTail
  \/ Poll
  \/ Clean
  \/ \E i \in RxSlots : RxDrain(i)
  \/ HwRxAdvance
  \/ HwRxWriteBack


\* ============================================================ control plane
\* ------------------------------------------------------- program constants
\* phy.rs: PHY_CONTROL, PHY_STATUS, and the address Phy::new gives the PHY
PHY_CONTROL == 0
PHY_STATUS == 1
PHY_ADDR == 1
\* Mac::reset: wait_for(.., from_millis(1), Some(1000))
RESET_INTERVAL_MS == 1
RESET_TRY_COUNT == 1000
\* RingInner::init (RX and TX): wait_for(.., from_millis(1), Some(1000))
RX_ENABLE_INTERVAL_MS == 1
RX_ENABLE_TRY_COUNT == 1000
TX_ENABLE_INTERVAL_MS == 1
TX_ENABLE_TRY_COUNT == 1000
\* Phy::wait_for_auto_negotiation_complete: interval and try_count
AUTONEG_INTERVAL_MS == 100
AUTONEG_TRY_COUNT == 30

\* -------------------------------------------------------------- bit fields
BitAt(v, b) == (v \div Pow2(b)) % 2
ClrBit(v, b) == IF BitAt(v, b) = 1 THEN v - Pow2(b) ELSE v

\* v | mask and v & !mask, the mask given as its set of bit positions
RECURSIVE OrBits(_, _)
OrBits(v, S) ==
  IF S = {} THEN v
  ELSE LET b == CHOOSE x \in S : TRUE IN OrBits(SetBit(v, b), S \ {b})

RECURSIVE AndNotBits(_, _)
AndNotBits(v, S) ==
  IF S = {} THEN v
  ELSE LET b == CHOOSE x \in S : TRUE IN AndNotBits(ClrBit(v, b), S \ {b})

\* PCTRL and PSTATUS fields (phy.rs register_bitfields)
PCTRL_RESET == 15
PCTRL_SPEED_SELECTION_LSB == 13
PCTRL_AUTO_NEGOTIATION_ENABLE == 12
PCTRL_POWER_DOWN == 11
PCTRL_RESTART_AUTO_NEGOTIATION == 9
PCTRL_DUPLEX_MODE == 8
PCTRL_SPEED_SELECTION_MSB == 6
PSTATUS_AUTO_NEGOTIATION_COMPLETE == 5
PSTATUS_LINK_STATUS == 2

\* GPIE fields (mac.rs register_bitfields), each as offset and width, and a
\* field value as the register interface holds it: the bits of the field and
\* the bits the value sets
GPIE_NSICR == [off |-> 0, n |-> 1]
GPIE_Multiple_MSIX == [off |-> 4, n |-> 1]
GPIE_LL_Interval == [off |-> 7, n |-> 5]
GPIE_EIAME == [off |-> 30, n |-> 1]
GPIE_PBA_Support == [off |-> 31, n |-> 1]
FieldVal(fld, v) ==
  [mask |-> fld.off .. fld.off + fld.n - 1,
   value |-> {fld.off + b : b \in {c \in 0 .. fld.n - 1 : BitAt(v, c) = 1}}]
\* ReadWrite::write and ReadWrite::modify
RegWriteFields(fvs) == OrBits(0, UNION {fv.value : fv \in fvs})
RegModifyField(old, fv) == OrBits(AndNotBits(old, fv.mask), fv.value)

\* MDIC fields (mac.rs register_bitfields): DATA[15:0], REGADDR[20:16],
\* PHY_ADDR[25:21], OP[27:26], READY 28, E 30
MDIC_OP_Write == 1
MDIC_OP_Read == 2
MDIC_READY == 28
MDIC_E == 30
MdicCmd(op, phys_addr, offset, data) ==
  (data % Pow2(16)) + (offset % 32) * Pow2(16) + (phys_addr % 32) * Pow2(21)
    + op * Pow2(26)
MdicData(v) == v % Pow2(16)
MdicRegAddr(v) == (v \div Pow2(16)) % 32
MdicOp(v) == (v \div Pow2(26)) % 4

\* Result<T, DError>: v is the Ok value, e the error
Ok(v) == [ok |-> TRUE, v |-> v, e |-> ""]
Err(e) == [ok |-> FALSE, v |-> 0, e |-> e]
\* Ok(b) for a bool b, kept as 0 / 1
OkBool(b) == Ok(IF b THEN 1 ELSE 0)
Unit == 0

\* CTRL_EXT.LINK_MODE as Mac::link_mode decodes it (read_as_enum)
link_mode(v) ==
  CASE v = 0 -> Some("DirectCooper")
    [] v = 2 -> Some("Sgmii")
    [] v = 3 -> Some("InternalSerdes")
    [] OTHER -> None

\* ------------------------------------------------------------- call frames
\* A frame: the function, the position in its body, the loop index of a
\* wait_for, the arguments, and the u16 local of a PHY routine.
Frame(f, a) == [f |-> f, i |-> 1, n |-> 0, a |-> a, x |-> 0]
NoArgs == [none |-> 0]

\* How a caller treats the Result of a call:
\*   "?"      propagate Err, go on after Ok
\*   "?x"     propagate Err, keep the Ok value in the u16 local
\*   "ret"    the call is the function's value (tail expression)
\*   "drop"   the Result is not looked at
CallI(f, a, q) == [k |-> "call", f |-> f, a |-> a, q |-> q, withx |-> FALSE]
\* a call of write_mdic(offset, x) with the u16 local as data
CallX(f, a, q) == [k |-> "call", f |-> f, a |-> a, q |-> q, withx |-> TRUE]
RetI(v) == [k |-> "ret", v |-> v]
ModifyI(r, set, clr) == [k |-> "modify", r |-> r, set |-> set, clr |-> clr]
WriteI(r, v) == [k |-> "write", r |-> r, v |-> v]
WaitArgs(cond, interval, try_count) ==
  [cond |-> cond, interval |-> interval, try_count |-> try_count]

\* Mac (mac.rs)
\* disable_interrupts that reads EICR and leaves the mask alone.
Mac_disable_interrupts_no_mask ==
  << [k |-> "read", r |-> "EICR"], RetI(Ok(Unit)) >>
Mac_disable_interrupts ==
  << WriteI("EIMC", "MAX"), CallI("Mac::clear_interrupts", NoArgs, "drop"),
     RetI(Ok(Unit)) >>
Mac_clear_interrupts ==
  << WriteI("EIMC", "MAX"), [k |-> "read", r |-> "EICR"], RetI(Ok(Unit)) >>
Mac_enable_interrupts == << WriteI("EIMS", "MAX"), RetI(Ok(Unit)) >>
Mac_interrupts_ack == << [k |-> "irq_ack"] >>
\* GPIE through the register interface: write(fields) stores the fields'
\* values with every other bit 0, modify(field) replaces the field alone.
Mac_configure_msix_mode ==
  << [k |-> "gpie_write",
      fv |-> {FieldVal(GPIE_Multiple_MSIX, 1), FieldVal(GPIE_EIAME, 1),
              FieldVal(GPIE_PBA_Support, 1)}],
     RetI(Ok(Unit)) >>
Mac_configure_legacy_mode ==
  << [k |-> "gpie_write",
      fv |-> {FieldVal(GPIE_Multiple_MSIX, 0), FieldVal(GPIE_EIAME, 0),
              FieldVal(GPIE_PBA_Support, 0)}],
     RetI(Ok(Unit)) >>
Mac_set_nsicr == << [k |-> "gpie_nsicr"], RetI(Ok(Unit)) >>
Mac_set_ll_interval == << [k |-> "gpie_ll"], RetI(Ok(Unit)) >>
\* Mac reset that leaves PHY_RST alone.
Mac_reset_rst_only ==
  << ModifyI("CTRL", {"RST"}, {}),
     CallI("wait_for",
           WaitArgs("CTRL.RST", RESET_INTERVAL_MS, RESET_TRY_COUNT), "ret") >>
Mac_reset ==
  << ModifyI("CTRL", {"RST", "PHY_RST"}, {}),
     CallI("wait_for",
           WaitArgs("CTRL.RST", RESET_INTERVAL_MS, RESET_TRY_COUNT), "ret") >>
Mac_set_link_up == << ModifyI("CTRL", {"SLU", "FD"}, {}), RetI(Ok(Unit)) >>
Mac_disable_rx == << ModifyI("RCTL", {}, {"RXEN"}), RetI(Ok(Unit)) >>
Mac_read_mdic == << [k |-> "mdic_cmd", op |-> MDIC_OP_Read], [k |-> "mdic_poll"] >>
\* write_mdic that returns right after the command was written.
Mac_write_mdic_no_wait ==
  << [k |-> "mdic_cmd", op |-> MDIC_OP_Write], RetI(Ok(Unit)) >>
Mac_write_mdic == << [k |-> "mdic_cmd", op |-> MDIC_OP_Write], [k |-> "mdic_poll"] >>

\* osal::wait_for: 1 evaluate the closure, 2 sleep, and for a closure that
\* itself calls into the PHY: 3 the call, 4 the closure's value
wait_for ==
  << [k |-> "wf_poll"], [k |-> "wf_sleep"],
     CallI("Phy::is_auto_negotiation_complete", NoArgs, "drop"),
     [k |-> "wf_judge"] >>

\* Phy (phy.rs)
\* power_up that clears AUTO_NEGOTIATION_ENABLE along with POWER_DOWN.
Phy_power_up_no_autoneg ==
  << CallI("read_mdic", [offset |-> PHY_CONTROL], "?x"),
     [k |-> "and_not", bits |-> {PCTRL_POWER_DOWN, PCTRL_AUTO_NEGOTIATION_ENABLE}],
     CallX("write_mdic", [offset |-> PHY_CONTROL], "ret") >>
Phy_power_up ==
  << CallI("read_mdic", [offset |-> PHY_CONTROL], "?x"),
     [k |-> "and_not", bits |-> {PCTRL_POWER_DOWN}],
     CallX("write_mdic", [offset |-> PHY_CONTROL], "ret") >>
Phy_read_status == << CallI("read_mdic", [offset |-> PHY_STATUS], "ret") >>
Phy_is_auto_negotiation_complete ==
  << CallI("Phy::read_status", NoArgs, "?x"),
     [k |-> "ret_bit", bit |-> PSTATUS_AUTO_NEGOTIATION_COMPLETE] >>
Phy_wait_for_auto_negotiation_complete ==
  << CallI("wait_for",
           WaitArgs("autoneg", AUTONEG_INTERVAL_MS, AUTONEG_TRY_COUNT), "ret") >>
Phy_reset ==
  << CallI("read_mdic", [offset |-> PHY_CONTROL], "?x"),
     [k |-> "or", bits |-> {PCTRL_RESET}],
     CallX("write_mdic", [offset |-> PHY_CONTROL], "?"),
     CallI("read_mdic", [offset |-> PHY_CONTROL], "?x"),
     [k |-> "until_clear", bit |-> PCTRL_RESET, back |-> 4],
     RetI(Ok(Unit)) >>
\* set_speed_and_duplex that does not clear the speed and duplex bits first.
Phy_set_speed_and_duplex_no_clear ==
  << CallI("read_mdic", [offset |-> PHY_CONTROL], "?x"),
     [k |-> "and_not", bits |-> {}],
     [k |-> "duplex"],
     [k |-> "speed"],
     CallX("write_mdic", [offset |-> PHY_CONTROL], "ret") >>
Phy_set_speed_and_duplex ==
  << CallI("read_mdic", [offset |-> PHY_CONTROL], "?x"),
     [k |-> "and_not", bits |-> {PCTRL_SPEED_SELECTION_MSB,
                                 PCTRL_SPEED_SELECTION_LSB, PCTRL_DUPLEX_MODE}],
     [k |-> "duplex"],
     [k |-> "speed"],
     CallX("write_mdic", [offset |-> PHY_CONTROL], "ret") >>
Phy_enable_auto_negotiation ==
  << CallI("read_mdic", [offset |-> PHY_CONTROL], "?x"),
     [k |-> "or", bits |-> {PCTRL_AUTO_NEGOTIATION_ENABLE,
                            PCTRL_RESTART_AUTO_NEGOTIATION}],
     CallX("write_mdic", [offset |-> PHY_CONTROL], "ret") >>

\* Ring initialisation (ring/rx.rs, ring/tx.rs RingInner::init)
Rx_enable_queue == << WriteI("RXDCTL", "ENABLE"), RetI(Ok(Unit)) >>
\* Rx init with the queue enabled before head and tail are zeroed.
Rx_init_enable_first ==
  << WriteI("RDBAL", "base"), WriteI("RDBAH", "base"), WriteI("RDLEN", "len"),
     WriteI("SRRCTL", "bsize"),
     CallI("Rx::enable_queue", NoArgs, "drop"),
     WriteI("RDH", "0"), WriteI("RDT", "0"),
     CallI("wait_for",
           WaitArgs("RXDCTL.ENABLE", RX_ENABLE_INTERVAL_MS, RX_ENABLE_TRY_COUNT),
           "?"),
     RetI(Ok(Unit)) >>
Rx_init ==
  << WriteI("RDBAL", "base"), WriteI("RDBAH", "base"), WriteI("RDLEN", "len"),
     WriteI("SRRCTL", "bsize"), WriteI("RDH", "0"), WriteI("RDT", "0"),
     CallI("Rx::enable_queue", NoArgs, "drop"),
     CallI("wait_for",
           WaitArgs("RXDCTL.ENABLE", RX_ENABLE_INTERVAL_MS, RX_ENABLE_TRY_COUNT),
           "?"),
     RetI(Ok(Unit)) >>
\* Tx init that does not look at the Result of wait_for.
Tx_init_unchecked ==
  << WriteI("TDBAL", "base"), WriteI("TDBAH", "base"), WriteI("TDLEN", "len"),
     WriteI("TXDCTL", "WTHRESH"), WriteI("TDH", "0"), WriteI("TDT", "0"),
     WriteI("TXDCTL", "ENABLE"),
     CallI("wait_for",
           WaitArgs("TXDCTL.ENABLE", TX_ENABLE_INTERVAL_MS, TX_ENABLE_TRY_COUNT),
           "drop"),
     RetI(Ok(Unit)) >>
Tx_init ==
  << WriteI("TDBAL", "base"), WriteI("TDBAH", "base"), WriteI("TDLEN", "len"),
     WriteI("TXDCTL", "WTHRESH"), WriteI("TDH", "0"), WriteI("TDT", "0"),
     WriteI("TXDCTL", "ENABLE"),
     CallI("wait_for",
           WaitArgs("TXDCTL.ENABLE", TX_ENABLE_INTERVAL_MS, TX_ENABLE_TRY_COUNT),
           "?"),
     RetI(Ok(Unit)) >>

\* Igb (lib.rs)
\* open that does not look at the Result of the auto-negotiation wait.
Igb_open_ignore_autoneg ==
  << CallI("Mac::disable_interrupts", NoArgs, "drop"),
     CallI("Mac::reset", NoArgs, "?"),
     CallI("Mac::disable_interrupts", NoArgs, "drop"),
     [k |-> "link_mode_unwrap"],
     CallI("Phy::power_up", NoArgs, "?"),
     CallI("Igb::setup_phy_and_the_link", NoArgs, "?"),
     CallI("Mac::set_link_up", NoArgs, "drop"),
     CallI("Phy::wait_for_auto_negotiation_complete", NoArgs, "drop"),
     CallI("Igb::config_fc_after_link_up", NoArgs, "?"),
     CallI("Igb::init_stat", NoArgs, "drop"),
     CallI("Igb::init_rx", NoArgs, "drop"),
     CallI("Igb::init_tx", NoArgs, "drop"),
     CallI("Mac::enable_interrupts", NoArgs, "drop"),
     RetI(Ok(Unit)) >>
Igb_open ==
  << CallI("Mac::disable_interrupts", NoArgs, "drop"),
     CallI("Mac::reset", NoArgs, "?"),
     CallI("Mac::disable_interrupts", NoArgs, "drop"),
     [k |-> "link_mode_unwrap"],
     CallI("Phy::power_up", NoArgs, "?"),
     CallI("Igb::setup_phy_and_the_link", NoArgs, "?"),
     CallI("Mac::set_link_up", NoArgs, "drop"),
     CallI("Phy::wait_for_auto_negotiation_complete", NoArgs, "?"),
     CallI("Igb::config_fc_after_link_up", NoArgs, "?"),
     CallI("Igb::init_stat", NoArgs, "drop"),
     CallI("Igb::init_rx", NoArgs, "drop"),
     CallI("Igb::init_tx", NoArgs, "drop"),
     CallI("Mac::enable_interrupts", NoArgs, "drop"),
     RetI(Ok(Unit)) >>
Igb_config_fc_after_link_up == << RetI(Ok(Unit)) >>
Igb_setup_phy_and_the_link ==
  << CallI("Phy::power_up", NoArgs, "?"),
     CallI("Phy::enable_auto_negotiation", NoArgs, "?"),
     RetI(Ok(Unit)) >>
Igb_init_stat == << RetI(Ok(Unit)) >>
Igb_init_rx ==
  << CallI("Mac::disable_rx", NoArgs, "drop"),
     CallI("Rx::init", NoArgs, "drop"),
     ModifyI("RCTL", {"RXEN"}, {}),
     RetI(Ok(Unit)) >>
Igb_init_tx == << CallI("Tx::init", NoArgs, "drop"), RetI(Ok(Unit)) >>

Body(f) ==
  CASE f = "Igb::open" -> Igb_open
    [] f = "Igb::config_fc_after_link_up" -> Igb_config_fc_after_link_up
    [] f = "Igb::setup_phy_and_the_link" -> Igb_setup_phy_and_the_link
    [] f = "Igb::init_stat" -> Igb_init_stat
    [] f = "Igb::init_rx" -> Igb_init_rx
    [] f = "Igb::init_tx" -> Igb_init_tx
    [] f = "Mac::disable_interrupts" -> Mac_disable_interrupts
    [] f = "Mac::clear_interrupts" -> Mac_clear_interrupts
    [] f = "Mac::enable_interrupts" -> Mac_enable_interrupts
    [] f = "Mac::interrupts_ack" -> Mac_interrupts_ack
    [] f = "Mac::configure_msix_mode" -> Mac_configure_msix_mode
    [] f = "Mac::configure_legacy_mode" -> Mac_configure_legacy_mode
    [] f = "Mac::set_nsicr" -> Mac_set_nsicr
    [] f = "Mac::set_ll_interval" -> Mac_set_ll_interval
    [] f = "Mac::reset" -> Mac_reset
    [] f = "Mac::set_link_up" -> Mac_set_link_up
    [] f = "Mac::disable_rx" -> Mac_disable_rx
    [] f = "read_mdic" -> Mac_read_mdic
    [] f = "write_mdic" -> Mac_write_mdic
    [] f = "wait_for" -> wait_for
    [] f = "Phy::power_up" -> Phy_power_up
    [] f = "Phy::read_status" -> Phy_read_status
    [] f = "Phy::is_auto_negotiation_complete" -> Phy_is_auto_negotiation_complete
    [] f = "Phy::wait_for_auto_negotiation_complete" ->
         Phy_wait_for_auto_negotiation_complete
    [] f = "Phy::reset" -> Phy_reset
    [] f = "Phy::set_speed_and_duplex" -> Phy_set_speed_and_duplex
    [] f = "Phy::enable_auto_negotiation" -> Phy_enable_auto_negotiation
    [] f = "Rx::enable_queue" -> Rx_enable_queue
    [] f = "Rx::init" -> Rx_init
    [] f = "Tx::init" -> Tx_init

\* DError
Timeout == "Timeout"
InvalidParameter == "InvalidParameter"
Unknown(msg) == "Unknown(" \o msg \o ")"
Panicked == Err("panic")

\* --------------------------------------------------------- the interpreter
Top == stack[1]
Instr == Body(Top.f)[Top.i]
At(kinds) == queue \in {"ctl", "irq", "gpie"} /\ stack # <<>> /\ Top.i > 0 /\ Instr.k \in kinds
SetTop(fr) == <<fr>> \o Tail(stack)
Goto(i) == SetTop([Top EXCEPT !.i = i])
\* the function on top of the stack is done; its Result is in `ret`
Done == Goto(0)

\* The calls a caller of the crate makes.  PHY routines may follow one
\* another; open, reset and ring initialisation are exercised on their own.
SpeedArgs ==
  [speed_1000 : BOOLEAN, speed_100 : BOOLEAN, full_duplex : BOOLEAN]
PhyOps ==
  {[f |-> f, a |-> NoArgs] :
     f \in {"Phy::power_up", "Phy::reset", "Phy::enable_auto_negotiation",
            "Phy::read_status"}}
  \cup {[f |-> "Phy::set_speed_and_duplex", a |-> a] : a \in SpeedArgs}
BringUpOps ==
  {[f |-> f, a |-> NoArgs] : f \in {"Igb::open", "Mac::reset", "Rx::init", "Tx::init"}}
\* wait_for on its own, with small try counts, over a closure `f` of the
\* caller's that may return either value each time it is evaluated.
WaitCounts == 0 .. MaxTry
WaitOps ==
  {[f |-> "wait_for", a |-> WaitArgs("f", 1, n)] : n \in WaitCounts}
\* The interrupt routines are exercised together, against a device that
\* raises causes at any moment.
IrqOps ==
  {[f |-> f, a |-> NoArgs] :
     f \in {"Mac::disable_interrupts", "Mac::enable_interrupts",
            "Mac::interrupts_ack"}}
\* The routines that set up GPIE, in any order.  set_ll_interval takes a u8.
LlIntervals == {0, 9, 31, 41}
GpieOps ==
  {[f |-> f, a |-> NoArgs] :
     f \in {"Mac::configure_msix_mode", "Mac::configure_legacy_mode"}}
  \cup {[f |-> "Mac::set_nsicr", a |-> [enable |-> e]] : e \in BOOLEAN}
  \cup {[f |-> "Mac::set_ll_interval", a |-> [interval |-> v]] : v \in LlIntervals}

CtlCall(op) ==
  /\ UNCHANGED <<queue, txvars, rxvars, pure>>
  /\ stack = <<>>
  /\ ctl_res.e # Panicked.e
  /\ ring_mem = "live"
  /\ \/ /\ queue = "ctl"
        /\ op \in PhyOps
        /\ ctl_calls < MaxPhyOps
        /\ ctl_calls' = ctl_calls + 1
     \/ /\ queue = "ctl"
        /\ op \in BringUpOps \cup WaitOps
        /\ ctl_calls = 0
        /\ ctl_calls' = MaxPhyOps
     \/ /\ queue = "irq"
        /\ op \in IrqOps
        /\ ctl_calls < MaxIrqOps
        /\ ctl_calls' = ctl_calls + 1
     \/ /\ queue = "gpie"
        /\ op \in GpieOps
        /\ ctl_calls < MaxIrqOps
        /\ ctl_calls' = ctl_calls + 1
  /\ irq_off' = (irq_off /\ op.f # "Mac::enable_interrupts")
  /\ stack' = <<Frame(op.f, op.a)>>
  /\ wlog' = <<>>
  /\ polls' = 0
  /\ sleeps' = 0
  /\ UNCHANGED <<mac, phy, qen, ret, ctl_res, mdic_hist, ring_mem, irq_msg>>

\* a call expression: push the callee's frame
Call ==
  /\ At({"call"})
  /\ UNCHANGED <<queue, txvars, rxvars, pure>>
  /\ LET a == IF Instr.withx
                THEN [offset |-> Instr.a.offset, data |-> Top.x]
                ELSE Instr.a
     IN stack' = <<Frame(Instr.f, a)>> \o stack
  /\ IF Instr.f = "wait_for"
       THEN polls' = 0 /\ sleeps' = 0
       ELSE UNCHANGED <<polls, sleeps>>
  /\ irq_off' = (irq_off /\ Instr.f # "Mac::enable_interrupts")
  /\ UNCHANGED <<mac, phy, qen, ret, ctl_res, wlog, mdic_hist, ctl_calls, ring_mem, irq_msg>>

\* `return v` / the function's tail value
Ret ==
  /\ At({"ret"})
  /\ UNCHANGED <<queue, txvars, rxvars, pure>>
  /\ ret' = Instr.v
  /\ stack' = Done
  /\ UNCHANGED <<mac, phy, qen, ctl_res, wlog, polls, sleeps, mdic_hist,
                 ctl_calls, ring_mem, irq_msg, irq_off>>

\* the callee is done: pop it and let the caller deal with the Result
Return ==
  /\ queue \in {"ctl", "irq", "gpie"}
  /\ UNCHANGED <<queue, txvars, rxvars, pure>>
  /\ stack # <<>>
  /\ Top.i = 0
  /\ IF Len(stack) = 1
       THEN /\ stack' = <<>>
            /\ ctl_res' = ret
       ELSE LET caller == stack[2]
                q == Body(caller.f)[caller.i].q
                next == [caller EXCEPT !.i = caller.i + 1]
                rest == Tail(Tail(stack))
            IN /\ stack' =
                    CASE q = "ret" -> <<[caller EXCEPT !.i = 0]>> \o rest
                      [] q = "?" ->
                           IF ret.ok THEN <<next>> \o rest
                           ELSE <<[caller EXCEPT !.i = 0]>> \o rest
                      [] q = "?x" ->
                           IF ret.ok THEN <<[next EXCEPT !.x = ret.v]>> \o rest
                           ELSE <<[caller EXCEPT !.i = 0]>> \o rest
                      [] q = "drop" -> <<next>> \o rest
               /\ UNCHANGED ctl_res
  /\ IF Top.f = "wait_for"
       THEN polls' = 0 /\ sleeps' = 0
       ELSE UNCHANGED <<polls, sleeps>>
  /\ irq_off' = (irq_off \/ Top.f = "Mac::disable_interrupts")
  /\ UNCHANGED <<mac, phy, qen, ret, wlog, mdic_hist, ctl_calls, ring_mem, irq_msg>>

\* EICR: RxTxQ is bits 0..15, TCP_Timer bit 30, Other_Cause bit 31
EICR_RxTxQ == 0 .. 15
EICR_TCP_Timer == 30
EICR_Other_Cause == 31
\* IrqMsg, from the set of bits of `status`
IrqMsg(status) ==
  [queue_idx |-> OrBits(0, status \cap EICR_RxTxQ),
   tcp_timer |-> EICR_TCP_Timer \in status,
   other |-> EICR_Other_Cause \in status]
interrupts_ack_unmasked(eicr, eims) == IrqMsg(eicr)
\* Mac::interrupts_ack: status = eicr & eims
interrupts_ack(eicr, eims) == IrqMsg(eicr \cap eims)

\* a register write, read-modify-write or read of the MAC or of a queue
U32Bits == 0 .. 31
RegBits(v) == IF v = "MAX" THEN U32Bits ELSE {}
MacAfterWrite(r, v) ==
  CASE r = "EIMC" -> [mac EXCEPT !.EIMS = @ \ RegBits(v)]
    [] r = "EIMS" -> [mac EXCEPT !.EIMS = @ \cup RegBits(v)]
    [] OTHER -> mac
\* EICR is cleared by the read that returns it.
MacAfterRead(r) == IF r = "EICR" THEN [mac EXCEPT !.EICR = {}] ELSE mac
QenAfterWrite(r, v) ==
  CASE r = "RXDCTL" -> [qen EXCEPT !.rx = [req |-> v = "ENABLE", en |-> @.en /\ v = "ENABLE"]]
    [] r = "TXDCTL" -> [qen EXCEPT !.tx = [req |-> v = "ENABLE", en |-> @.en /\ v = "ENABLE"]]
    [] OTHER -> qen
Modified(old, set, clr) == (old \ clr) \cup set

RegStep ==
  /\ At({"write", "modify", "read"})
  /\ UNCHANGED <<queue, txvars, rxvars, pure>>
  /\ CASE Instr.k = "write" ->
            /\ mac' = MacAfterWrite(Instr.r, Instr.v)
            /\ qen' = QenAfterWrite(Instr.r, Instr.v)
            /\ wlog' = Append(wlog, <<Instr.r, Instr.v>>)
       [] Instr.k = "modify" ->
            LET new == Modified(mac[Instr.r], Instr.set, Instr.clr)
            IN /\ mac' = [mac EXCEPT ![Instr.r] = new]
               /\ wlog' = Append(wlog, <<Instr.r, new>>)
               /\ UNCHANGED qen
       [] Instr.k = "read" ->
            /\ mac' = MacAfterRead(Instr.r)
            /\ UNCHANGED <<qen, wlog>>
  /\ stack' = Goto(Top.i + 1)
  /\ UNCHANGED <<phy, ret, ctl_res, polls, sleeps, mdic_hist, ctl_calls, ring_mem, irq_msg, irq_off>>

\* The GPIE routines: configure_*_mode write the register, set_nsicr and
\* set_ll_interval modify one field (the interval masked to 5 bits).
GpieStep ==
  /\ At({"gpie_write", "gpie_nsicr", "gpie_ll"})
  /\ UNCHANGED <<queue, txvars, rxvars, pure>>
  /\ LET new ==
           CASE Instr.k = "gpie_write" -> RegWriteFields(Instr.fv)
             [] Instr.k = "gpie_nsicr" ->
                  RegModifyField(mac.GPIE,
                                 FieldVal(GPIE_NSICR, IF Top.a.enable THEN 1 ELSE 0))
             [] Instr.k = "gpie_ll" ->
                  RegModifyField(mac.GPIE,
                                 FieldVal(GPIE_LL_Interval, Top.a.interval % 32))
     IN mac' = [mac EXCEPT !.GPIE = new]
  /\ wlog' = Append(wlog, <<"GPIE", "Write">>)
  /\ stack' = Goto(Top.i + 1)
  /\ UNCHANGED <<phy, qen, ret, ctl_res, polls, sleeps, mdic_hist, ctl_calls, ring_mem, irq_msg, irq_off>>

\* Mac::interrupts_ack reads EICR, then EIMS, and builds the IrqMsg; the
\* mask does not change between the two reads.
IrqAck ==
  /\ At({"irq_ack"})
  /\ UNCHANGED <<queue, txvars, rxvars, pure>>
  /\ irq_msg' = interrupts_ack(mac.EICR, mac.EIMS)
  /\ mac' = MacAfterRead("EICR")
  /\ ret' = Ok(Unit)
  /\ stack' = Done
  /\ UNCHANGED <<phy, qen, ctl_res, wlog, polls, sleeps, mdic_hist, ctl_calls,
                 ring_mem, irq_off>>

\* The Igb value goes out of scope: its rings' descriptor memory and packet
\* buffers are released.  No Drop implementation touches the device.
DropIgb ==
  /\ queue = "ctl"
  /\ UNCHANGED <<queue, txvars, rxvars, pure>>
  /\ stack = <<>>
  /\ ring_mem = "live"
  /\ ring_mem' = "freed"
  /\ UNCHANGED <<mac, phy, qen, stack, ret, ctl_res, wlog, polls, sleeps,
                 mdic_hist, ctl_calls, irq_msg, irq_off>>

\* Igb::open: self.mac.borrow().link_mode().unwrap().  CTRL_EXT.LINK_MODE
\* is two bits loaded by the hardware (the reset before this read reloads
\* them): the read presents any of the four encodings.
LinkModes == 0 .. 3
LinkModeUnwrap ==
  /\ At({"link_mode_unwrap"})
  /\ UNCHANGED <<queue, txvars, rxvars, pure>>
  /\ \E v \in LinkModes :
       IF link_mode(v) = None
         THEN stack' = <<>> /\ ctl_res' = Panicked
         ELSE stack' = Goto(Top.i + 1) /\ UNCHANGED ctl_res
  /\ UNCHANGED <<mac, phy, qen, ret, wlog, polls, sleeps, mdic_hist, ctl_calls, ring_mem, irq_msg, irq_off>>

\* Mac::read_mdic / Mac::write_mdic: the command word is written to MDIC
\* (followed by mb()).
MdicCmdStep ==
  /\ At({"mdic_cmd"})
  /\ UNCHANGED <<queue, txvars, rxvars, pure>>
  /\ LET data == IF Instr.op = MDIC_OP_Write THEN Top.a.data ELSE 0
     IN /\ mac' = [mac EXCEPT !.MDIC = MdicCmd(Instr.op, PHY_ADDR, Top.a.offset, data)]
        /\ wlog' = IF Instr.op = MDIC_OP_Write
                     THEN Append(wlog, <<"MDIC", "Write">>)
                     ELSE wlog
  /\ phy' = [phy EXCEPT !.busy = TRUE]
  /\ mdic_hist' = (mdic_hist \/ phy.busy)
  /\ stack' = Goto(Top.i + 1)
  /\ UNCHANGED <<qen, ret, ctl_res, polls, sleeps, ctl_calls, ring_mem, irq_msg, irq_off>>

\* One pass of the loop after the command: READY is looked at first, then E.
MdicPoll(v, isRead) ==
  IF BitAt(v, MDIC_READY) = 1
    THEN Some(Ok(IF isRead THEN MdicData(v) ELSE Unit))
    ELSE IF BitAt(v, MDIC_E) = 1
      THEN Some(Err(Unknown("MDIC read error")))
      ELSE None

MdicPollStep ==
  /\ At({"mdic_poll"})
  /\ UNCHANGED <<queue, txvars, rxvars, pure>>
  /\ LET r == MdicPoll(mac.MDIC, Top.f = "read_mdic")
     IN IF r = None
          THEN UNCHANGED <<stack, ret>>
          ELSE ret' = r[1] /\ stack' = Done
  /\ UNCHANGED <<mac, phy, qen, ctl_res, wlog, polls, sleeps, mdic_hist,
                 ctl_calls, ring_mem, irq_msg, irq_off>>

\* osal::wait_for -- the closures over a register
CondHolds(cond) ==
  CASE cond = "CTRL.RST" -> "RST" \notin mac.CTRL
    [] cond = "RXDCTL.ENABLE" -> qen.rx.en
    [] cond = "TXDCTL.ENABLE" -> qen.tx.en
\* what an evaluation of the closure may return
ClosureValues(cond) == IF cond = "f" THEN BOOLEAN ELSE {CondHolds(cond)}

\* A loop that makes one attempt more than try_count.
WfExhausted_inclusive(n, try_count) == n > try_count
\* `for _ in 0..try_count`: the range is used up after try_count iterations
WfExhausted(n, try_count) == n >= try_count

\* head of the for loop and, for a register closure, `if f() { return Ok(()) }`
WfPoll ==
  /\ At({"wf_poll"})
  /\ UNCHANGED <<queue, txvars, rxvars, pure>>
  /\ IF WfExhausted(Top.n, Top.a.try_count)
       THEN ret' = Err(Timeout) /\ stack' = Done /\ UNCHANGED polls
       ELSE IF Top.a.cond = "autoneg"
         THEN stack' = Goto(3) /\ UNCHANGED <<ret, polls>>
         ELSE /\ polls' = polls + 1
              /\ \E holds \in ClosureValues(Top.a.cond) :
                   IF holds
                     THEN ret' = Ok(Unit) /\ stack' = Done
                     ELSE stack' = Goto(2) /\ UNCHANGED ret
  /\ UNCHANGED <<mac, phy, qen, ctl_res, wlog, sleeps, mdic_hist, ctl_calls, ring_mem, irq_msg, irq_off>>

\* a closure that hands the error of is_auto_negotiation_complete on
WfJudge_propagate ==
  /\ At({"wf_judge"})
  /\ UNCHANGED <<queue, txvars, rxvars, pure>>
  /\ polls' = polls + 1
  /\ IF ~ret.ok
       THEN stack' = Done /\ UNCHANGED ret
       ELSE IF ret.v = 1
         THEN ret' = Ok(Unit) /\ stack' = Done
         ELSE stack' = Goto(2) /\ UNCHANGED ret
  /\ UNCHANGED <<mac, phy, qen, ctl_res, wlog, sleeps, mdic_hist, ctl_calls, ring_mem, irq_msg, irq_off>>

\* the closure is_auto_negotiation_complete().unwrap_or(false) has returned
WfJudge ==
  /\ At({"wf_judge"})
  /\ UNCHANGED <<queue, txvars, rxvars, pure>>
  /\ polls' = polls + 1
  /\ IF ret.ok /\ ret.v = 1
       THEN ret' = Ok(Unit) /\ stack' = Done
       ELSE stack' = Goto(2) /\ UNCHANGED ret
  /\ UNCHANGED <<mac, phy, qen, ctl_res, wlog, sleeps, mdic_hist, ctl_calls, ring_mem, irq_msg, irq_off>>

\* sleep(interval); next iteration
WfSleep ==
  /\ At({"wf_sleep"})
  /\ UNCHANGED <<queue, txvars, rxvars, pure>>
  /\ sleeps' = sleeps + 1
  /\ stack' = SetTop([Top EXCEPT !.i = 1, !.n = Top.n + 1])
  /\ UNCHANGED <<mac, phy, qen, ret, ctl_res, wlog, polls, mdic_hist, ctl_calls, ring_mem, irq_msg, irq_off>>

\* Phy: arithmetic on the u16 read from PHY_CONTROL
PhyAlu ==
  /\ At({"and_not", "or", "duplex"})
  /\ UNCHANGED <<queue, txvars, rxvars, pure>>
  /\ LET x == CASE Instr.k = "and_not" -> AndNotBits(Top.x, Instr.bits)
                [] Instr.k = "or" -> OrBits(Top.x, Instr.bits)
                [] Instr.k = "duplex" ->
                     IF Top.a.full_duplex
                       THEN OrBits(Top.x, {PCTRL_DUPLEX_MODE})
                       ELSE Top.x
     IN stack' = SetTop([Top EXCEPT !.i = Top.i + 1, !.x = x])
  /\ UNCHANGED <<mac, phy, qen, ret, ctl_res, wlog, polls, sleeps, mdic_hist,
                 ctl_calls, ring_mem, irq_msg, irq_off>>

\* Phy::set_speed_and_duplex: match (speed_1000, speed_100)
SpeedMatch ==
  /\ At({"speed"})
  /\ UNCHANGED <<queue, txvars, rxvars, pure>>
  /\ LET s == <<Top.a.speed_1000, Top.a.speed_100>>
     IN CASE s = <<TRUE, FALSE>> ->
               /\ stack' = SetTop([Top EXCEPT !.i = Top.i + 1,
                                    !.x = OrBits(Top.x, {PCTRL_SPEED_SELECTION_MSB})])
               /\ UNCHANGED ret
          [] s = <<FALSE, TRUE>> ->
               /\ stack' = SetTop([Top EXCEPT !.i = Top.i + 1,
                                    !.x = OrBits(Top.x, {PCTRL_SPEED_SELECTION_LSB})])
               /\ UNCHANGED ret
          [] s = <<FALSE, FALSE>> ->
               stack' = Goto(Top.i + 1) /\ UNCHANGED ret
          [] OTHER ->
               ret' = Err(Unknown("Invalid speed combination")) /\ stack' = Done
  /\ UNCHANGED <<mac, phy, qen, ctl_res, wlog, polls, sleeps, mdic_hist,
                 ctl_calls, ring_mem, irq_msg, irq_off>>

\* Phy::reset: loop until the RESET bit reads clear
UntilClear ==
  /\ At({"until_clear"})
  /\ UNCHANGED <<queue, txvars, rxvars, pure>>
  /\ stack' = IF BitAt(Top.x, Instr.bit) = 0 THEN Goto(Top.i + 1) ELSE Goto(Instr.back)
  /\ UNCHANGED <<mac, phy, qen, ret, ctl_res, wlog, polls, sleeps, mdic_hist,
                 ctl_calls, ring_mem, irq_msg, irq_off>>

\* Ok(status & BIT != 0)
RetBit ==
  /\ At({"ret_bit"})
  /\ UNCHANGED <<queue, txvars, rxvars, pure>>
  /\ ret' = OkBool(BitAt(Top.x, Instr.bit) # 0)
  /\ stack' = Done
  /\ UNCHANGED <<mac, phy, qen, ctl_res, wlog, polls, sleeps, mdic_hist,
                 ctl_calls, ring_mem, irq_msg, irq_off>>

\* ------------------------------------------------------------ the hardware
\* The MAC finishes its reset: RST and PHY_RST self-clear, registers go back
\* to their defaults.
HwResetDone ==
  /\ queue = "ctl"
  /\ UNCHANGED <<queue, txvars, rxvars, pure>>
  /\ "RST" \in mac.CTRL
  /\ mac' = [mac EXCEPT !.CTRL = {}, !.RCTL = {}, !.TCTL = {}, !.EIMS = {}]
  /\ UNCHANGED <<phy, qen, stack, ret, ctl_res, wlog, polls, sleeps, mdic_hist,
                 ctl_calls, ring_mem, irq_msg, irq_off>>

\* A queue whose ENABLE was requested comes up.
HwQueueEnable(q) ==
  /\ queue = "ctl"
  /\ UNCHANGED <<queue, txvars, rxvars, pure>>
  /\ qen[q].req
  /\ ~qen[q].en
  /\ qen' = [qen EXCEPT ![q].en = TRUE]
  /\ UNCHANGED <<mac, phy, stack, ret, ctl_res, wlog, polls, sleeps, mdic_hist,
                 ctl_calls, ring_mem, irq_msg, irq_off>>

\* The MDIO transaction ends: READY, E or both are raised.  A read that
\* succeeded carries the PHY register in DATA, a write that succeeded has
\* changed the PHY register.
PhyReg(offset) == IF offset = PHY_CONTROL THEN phy.PCTRL ELSE phy.PSTATUS
MdicOutcomes == {{"READY"}, {"E"}, {"READY", "E"}}

HwMdicComplete(outcome) ==
  /\ queue = "ctl"
  /\ UNCHANGED <<queue, txvars, rxvars, pure>>
  /\ phy.busy
  /\ LET cmd == mac.MDIC
         op == MdicOp(cmd)
         reg == MdicRegAddr(cmd)
         good == "E" \notin outcome
         data == IF op = MDIC_OP_Read /\ good THEN PhyReg(reg) ELSE MdicData(cmd)
         flags == OrBits(0, {IF f = "READY" THEN MDIC_READY ELSE MDIC_E : f \in outcome})
     IN /\ mac' = [mac EXCEPT !.MDIC = (cmd - MdicData(cmd)) + data + flags]
        /\ phy' = IF op = MDIC_OP_Write /\ good
                    THEN IF reg = PHY_CONTROL
                           THEN [phy EXCEPT !.busy = FALSE, !.PCTRL = MdicData(cmd)]
                           ELSE [phy EXCEPT !.busy = FALSE]
                    ELSE [phy EXCEPT !.busy = FALSE]
  /\ UNCHANGED <<qen, stack, ret, ctl_res, wlog, polls, sleeps, mdic_hist,
                 ctl_calls, ring_mem, irq_msg, irq_off>>

\* The PHY finishes its reset: the RESET bit self-clears.
HwPhyResetDone ==
  /\ queue = "ctl"
  /\ UNCHANGED <<queue, txvars, rxvars, pure>>
  /\ BitAt(phy.PCTRL, PCTRL_RESET) = 1
  /\ phy' = [phy EXCEPT !.PCTRL = ClrBit(phy.PCTRL, PCTRL_RESET)]
  /\ UNCHANGED <<mac, qen, stack, ret, ctl_res, wlog, polls, sleeps, mdic_hist,
                 ctl_calls, ring_mem, irq_msg, irq_off>>

\* Auto-negotiation completes.
HwAutoNegDone ==
  /\ queue = "ctl"
  /\ UNCHANGED <<queue, txvars, rxvars, pure>>
  /\ BitAt(phy.PSTATUS, PSTATUS_AUTO_NEGOTIATION_COMPLETE) = 0
  /\ phy' = [phy EXCEPT !.PSTATUS = OrBits(phy.PSTATUS, {PSTATUS_AUTO_NEGOTIATION_COMPLETE})]
  /\ UNCHANGED <<mac, qen, stack, ret, ctl_res, wlog, polls, sleeps, mdic_hist,
                 ctl_calls, ring_mem, irq_msg, irq_off>>

\* The device raises an interrupt cause.
IrqBits == {15, 16, EICR_TCP_Timer, EICR_Other_Cause}
HwRaiseCause(b) ==
  /\ queue = "irq"
  /\ UNCHANGED <<queue, txvars, rxvars, pure>>
  /\ b \notin mac.EICR
  /\ mac' = [mac EXCEPT !.EICR = @ \cup {b}]
  /\ UNCHANGED <<phy, qen, stack, ret, ctl_res, wlog, polls, sleeps, mdic_hist,
                 ctl_calls, ring_mem, irq_msg, irq_off>>

NoResult == Err("none")
CtlIdle ==
  /\ mac = [CTRL |-> {}, EIMS |-> U32Bits, EICR |-> {}, RCTL |-> {},
            TCTL |-> {}, MDIC |-> 0, GPIE |-> 0]
  /\ phy = [PCTRL |-> 4416, PSTATUS |-> 0, busy |-> FALSE]
  /\ qen = [rx |-> [req |-> FALSE, en |-> FALSE], tx |-> [req |-> FALSE, en |-> FALSE]]
  /\ stack = <<>>
  /\ ret = Ok(Unit)
  /\ ctl_res = NoResult
  /\ wlog = <<>>
  /\ polls = 0
  /\ sleeps = 0
  /\ mdic_hist = FALSE
  /\ ctl_calls = 0
  /\ ring_mem = "live"
  /\ irq_msg = IrqMsg({})
  /\ irq_off = FALSE
\* Power-on: the PHY may be powered down.
CtlInit ==
  /\ mac \in [CTRL : {{}}, EIMS : {U32Bits}, EICR : {{}}, RCTL : {{}},
              TCTL : {{}}, MDIC : {0}, GPIE : {0}]
  /\ phy \in [PCTRL : {4416, 6464}, PSTATUS : {0}, busy : {FALSE}]
  /\ qen = [rx |-> [req |-> FALSE, en |-> FALSE], tx |-> [req |-> FALSE, en |-> FALSE]]
  /\ stack = <<>>
  /\ ret = Ok(Unit)
  /\ ctl_res = NoResult
  /\ wlog = <<>>
  /\ polls = 0
  /\ sleeps = 0
  /\ mdic_hist = FALSE
  /\ ctl_calls = 0
  /\ ring_mem = "live"
  /\ irq_msg = IrqMsg({})
  /\ irq_off = FALSE

\* The interrupt routines start from any mask.
IrqInit ==
  /\ mac \in [CTRL : {{}}, EIMS : SUBSET IrqBits, EICR : {{}}, RCTL : {{}},
              TCTL : {{}}, MDIC : {0}, GPIE : {0}]
  /\ phy = [PCTRL |-> 4416, PSTATUS |-> 0, busy |-> FALSE]
  /\ qen = [rx |-> [req |-> FALSE, en |-> FALSE], tx |-> [req |-> FALSE, en |-> FALSE]]
  /\ stack = <<>>
  /\ ret = Ok(Unit)
  /\ ctl_res = NoResult
  /\ wlog = <<>>
  /\ polls = 0
  /\ sleeps = 0
  /\ mdic_hist = FALSE
  /\ ctl_calls = 0
  /\ ring_mem = "live"
  /\ irq_msg = IrqMsg({})
  /\ irq_off = FALSE

CtlHardware ==
  \/ HwResetDone
  \/ \E q \in {"rx", "tx"} : HwQueueEnable(q)
  \/ \E outcome \in MdicOutcomes : HwMdicComplete(outcome)
  \/ HwPhyResetDone
  \/ HwAutoNegDone
  \/ \E b \in IrqBits : HwRaiseCause(b)
CtlSoftware ==
  \/ Call \/ Ret \/ Return \/ RegStep \/ LinkModeUnwrap \/ MdicCmdStep
  \/ MdicPollStep \/ WfPoll \/ WfJudge \/ WfSleep \/ PhyAlu \/ SpeedMatch
  \/ UntilClear \/ RetBit \/ IrqAck \/ GpieStep
CtlNext ==
  \/ \E op \in PhyOps \cup BringUpOps \cup WaitOps \cup IrqOps \cup GpieOps :
       CtlCall(op)
  \/ DropIgb
  \/ CtlSoftware
  \/ CtlHardware

\* ------------------------------------------------------ descriptor formats
\* bit b of a u32, and the field of n bits at offset off
U32Bit(v, b) == IF b = 31 THEN v < 0 ELSE BitAt(v, b) = 1
Field(v, off, n) == (v \div Pow2(off)) % Pow2(n)

\* AdvRxDescWB accessors
is_done(ets) == U32Bit(ets, 0)
packet_length(vlan_length) == Field(vlan_length, 0, 16)
vlan_tag(vlan_length) == Field(vlan_length, 16, 16)
\* The masked field, not shifted down.
packet_type_unshifted(ets) == Field(ets, 4, 13) * Pow2(4)
packet_type(ets) == Field(ets, 4, 13)
rss_type(ets) == Field(ets, 17, 3)
\* RX_DESC_EXT_ERROR::L4E, IPE, RXE: masks of bits 9, 10, 11, applied to the
\* whole error_type_status word
ExtErrorMasks == {9, 10, 11}
has_errors(ets) ==
  \/ Field(ets, 20, 12) # 0
  \/ \E b \in ExtErrorMasks : U32Bit(ets, b)

\* AdvRxDescRead::new
AdvRxDescReadNew(pkt_addr, hdr_addr, nse) ==
  [pkt_addr |-> IF nse THEN SetBit(pkt_addr, 0) ELSE ClrBit(pkt_addr, 0),
   hdr_addr |-> ClrBit(hdr_addr, 0)]

TxCmds == {"EOP", "IFCS", "IC", "RS", "DEXT", "VLE", "IDE"}
CmdLists == UNION {[1 .. n -> TxCmds] : n \in 0 .. MaxCmds}
\* error_type_status and vlan_length words, addresses and lengths the
\* functions are applied to
EtsBits == {0, 4, 9, 10, 11, 16, 17, 19, 20, 26, 31}
EtsSamples == {OrBits(0, S) : S \in SUBSET EtsBits}
VlanLenSamples == {0, 305397860, 65535, -65536, -1}
AddrSamples == {0, 1, 4096, 4097, 1073741822}
LenSamples == {0, 60, 2048, 1048575, 1048576 + 5}

PureIdle ==
  [f |-> "none", ets |-> 0, vlan_length |-> 0,
   wb |-> [done |-> FALSE, packet_length |-> 0, vlan_tag |-> 0,
           packet_type |-> 0, rss_type |-> 0, has_error |-> FALSE],
   buffer_addr |-> 0, buffer_len |-> 0, kind |-> "Data", cmd_ls |-> <<>>,
   tx |-> TxDescZero, tx_done |-> FALSE,
   pkt_addr |-> 0, hdr_addr |-> 0, nse |-> FALSE, panicked |-> FALSE,
   rx |-> [pkt_addr |-> 0, hdr_addr |-> 0]]

\* An RX write-back descriptor is parsed.
ParseRxWb(ets, vlan_length) ==
  /\ queue = "desc"
  /\ pure = PureIdle
  /\ pure' = [PureIdle EXCEPT
               !.f = "AdvRxDescWB", !.ets = ets, !.vlan_length = vlan_length,
               !.wb = [done |-> is_done(ets),
                       packet_length |-> packet_length(vlan_length),
                       vlan_tag |-> vlan_tag(vlan_length),
                       packet_type |-> packet_type(ets),
                       rss_type |-> rss_type(ets),
                       has_error |-> has_errors(ets)]]
  /\ UNCHANGED <<queue, txvars, rxvars, ctlvars>>

\* A TX descriptor is built.
MakeTx(buffer_addr, buffer_len, kind, cmd_ls) ==
  /\ queue = "desc"
  /\ pure = PureIdle
  /\ pure' = [PureIdle EXCEPT
               !.f = "AdvTxDesc::new", !.buffer_addr = buffer_addr,
               !.buffer_len = buffer_len, !.kind = kind, !.cmd_ls = cmd_ls,
               !.tx = AdvTxDescNew(buffer_addr, buffer_len, kind, cmd_ls)]
  /\ UNCHANGED <<queue, txvars, rxvars, ctlvars>>

\* A TX write-back descriptor {rsvd, nxtseq_seed, status} is tested for DD.
TxStatusBits == {0, 1, 16, 31}
TxStatusSamples == {OrBits(0, S) : S \in SUBSET TxStatusBits}
TxWbSamples == {0, 1, -1}
ParseTxWb(rsvd, nxtseq_seed, status) ==
  /\ queue = "desc"
  /\ pure = PureIdle
  /\ LET wb == [buffer_addr |-> rsvd, cmd_type_len |-> nxtseq_seed,
                olinfo_status |-> status]
     IN pure' = [PureIdle EXCEPT !.f = "AdvTxDescWB", !.tx = wb,
                                 !.tx_done = TxIsDone(wb)]
  /\ UNCHANGED <<queue, txvars, rxvars, ctlvars>>

\* An RX read descriptor is built: the constructor has no failing path.
MakeRxRead(pkt_addr, hdr_addr, nse) ==
  /\ queue = "desc"
  /\ pure = PureIdle
  /\ pure' = [PureIdle EXCEPT
               !.f = "AdvRxDescRead::new", !.pkt_addr = pkt_addr,
               !.hdr_addr = hdr_addr, !.nse = nse, !.panicked = FALSE,
               !.rx = AdvRxDescReadNew(pkt_addr, hdr_addr, nse)]
  /\ UNCHANGED <<queue, txvars, rxvars, ctlvars>>

\* arguments are drawn where a function is applied
Args(S) == IF queue = "desc" /\ pure = PureIdle THEN S ELSE {}
DescNext ==
  \/ \E ets \in Args(EtsSamples), vlan_length \in VlanLenSamples :
       ParseRxWb(ets, vlan_length)
  \/ \E buffer_addr \in Args(AddrSamples), buffer_len \in LenSamples,
        kind \in {"Data", "Context"}, cmd_ls \in CmdLists :
       MakeTx(buffer_addr, buffer_len, kind, cmd_ls)
  \/ \E rsvd \in Args(TxWbSamples), nxtseq_seed \in TxWbSamples,
        status \in TxStatusSamples :
       ParseTxWb(rsvd, nxtseq_seed, status)
  \/ \E pkt_addr \in Args(AddrSamples), hdr_addr \in AddrSamples, nse \in BOOLEAN :
       MakeRxRead(pkt_addr, hdr_addr, nse)

\* ------------------------------------------------------------ specification
Init ==
  /\ queue \in {"tx", "rx", "ctl", "irq", "gpie", "desc"}
  /\ TxInit
  /\ RxInit
  /\ CASE queue = "ctl" -> CtlInit
       [] queue = "irq" -> IrqInit
       [] OTHER -> CtlIdle
  /\ pure = PureIdle

Next == TxNext \/ RxNext \/ CtlNext \/ DescNext

Spec == Init /\ [][Next]_vars

\* The device keeps working on posted descriptors and a call in progress runs
\* to its end; the caller keeps calling next_finished and keeps polling a
\* pending RcvFuture.  New send / recv calls and clean() are not promised.
\* A control-plane routine that was called keeps executing and an MDIO
\* transaction that was started completes; nothing is promised about when,
\* or whether, the MAC, the PHY or a queue finishes a reset, an enable or
\* the auto-negotiation.
Fairness ==
  /\ WF_vars(SendCheck)
  /\ WF_vars(SendWrite)
  /\ WF_vars(SendBarrier)
  /\ WF_vars(SendTail)
  /\ WF_vars(NextFinished)
  /\ WF_vars(HwTxAdvance)
  /\ WF_vars(HwTxWriteBack)
  /\ WF_vars(RcvPost)
  /\ WF_vars(RcvBarrier)
  /\ WF_vars(RcvTail)
  /\ WF_vars(Poll)
  /\ WF_vars(HwRxAdvance)
  /\ WF_vars(HwRxWriteBack)
  /\ WF_vars(CtlSoftware)
  /\ WF_vars(HwMdicComplete({"READY"}))

SpecFair == Spec /\ Fairness

\* ------------------------------------------------------------------ claims

\* C1: a send of a request with length <= pkt_size returns NoMemory exactly
\* when (TDT + 1) mod count = TDH at its check and otherwise goes on to
\* advance TDT by exactly one slot modulo count; TDT only ever moves by one
\* slot, as the last step of a send that returns Ok, and never onto TDH.
C1_SendFullCheck ==
  [][ /\ (tx_pc = "check" /\ tx_pc' # "check" /\ tx_cur.request.len <= PACKET_SIZE)
         => /\ (tx_res' = "NoMemory") <=> ((TDT + 1) % TxCount = TDH)
            /\ (tx_res' # "NoMemory") => tx_pc' = "write"
      /\ (tx_pc = "tail" /\ tx_pc' # "tail")
         => tx_res' = "Ok" /\ TDT' = (TDT + 1) % TxCount
      /\ (TDT' # TDT)
         => /\ tx_pc = "tail"
            /\ TDT' = (TDT + 1) % TxCount
            /\ TDT' # TDH
            /\ Mod(TDT' - TDH, TxCount) <= TxCount - 1
    ]_vars

\* C1 witness: a send was refused with NoMemory on a ring holding count - 1
\* accepted requests.
C1_Witness ==
  /\ tx_res = "NoMemory"
  /\ Len(sent) = TxCount - 1
  /\ (TDT + 1) % TxCount = TDH

\* C2: the requests returned by next_finished are a prefix of the requests
\* accepted by send, in the same order, none skipped and none twice.
C2_FifoPrefix == IsPrefix(returned, sent)

\* C3: with the device processing every posted descriptor and the caller
\* calling next_finished again and again, every request send accepted is
\* eventually returned by next_finished.
C3_EventuallyReturned ==
  \A k \in 1 .. MaxSends :
    (Len(sent) >= k)
      ~> (Len(sent) >= k /\ \E j \in 1 .. Len(returned) : returned[j] = sent[k])

\* C4: between calls, meta[i] holds a request exactly when slot i lies in
\* [reclaim cursor, tail) modulo count, so the number of non-empty entries is
\* (tail - reclaim cursor) mod count.
C4_MetaInterval ==
  tx_pc = "idle" =>
    /\ \A i \in TxSlots :
         (tx_meta[i] # None) <=> InRange(finished, TDT, i, TxCount)
    /\ Cardinality({i \in TxSlots : tx_meta[i] # None}) = Mod(TDT - finished, TxCount)

\* C5: an RX post that returns Ok never moves RDT onto or past the hardware
\* head: the buffers it posted fit into the count - 1 - (RDT - RDH) mod count
\* free slots; a post that does not fit fails instead.
C5_RxPostFits ==
  [][ (rx_pc = "tail" /\ rx_pc' = "poll")
        => rx_cur.k <= RxCount - 1 - Mod(RDT - RDH, RxCount) ]_vars

\* C6: once a buffer is posted and the device has written DD into every
\* descriptor posted for it, polling the RcvFuture again and again
\* eventually reports the buffer as received.
C6_EventuallyReady ==
  (rx_pc = "poll" /\ rx_hwdone = rx_cur.k) ~> (rx_res = "Ready")

\* C7: the consume cursor moves past slot i only when the write-back
\* descriptor of slot i shows DD = 1 (bit 0 of error_type_status), one slot
\* at a time in ring order; and when a buffer is reported received, every
\* slot posted for it shows DD = 1.
C7_DdGatesCursor ==
  [][ /\ (current_head' # current_head)
         => /\ View(rx_desc, rx_wbuf)[current_head].error_type_status % 2 = 1
            /\ current_head' = (current_head + 1) % RxCount
      /\ (rx_res' = "Ready" /\ rx_res # "Ready")
         => \A j \in 0 .. rx_cur.k - 1 :
              View(rx_desc', rx_wbuf')[(rx_cur.start + j) % RxCount].error_type_status % 2 = 1
    ]_vars

\* C7 witness: a recv of a two-packet buffer was reported received.
C7_Witness ==
  /\ rx_res = "Ready"
  /\ rx_cur.k = 2
  /\ current_head = (rx_cur.start + 2) % RxCount

\* C8: the device, which fetches slots in [head, tail) only, never finds
\* there a slot whose descriptor store is still pending: every descriptor
\* store for slot i is visible before TDT / RDT moves past i.
C8_NoPendingStoreInHwRange ==
  /\ \A i \in TxSlots : InRange(TDH, TDT, i, TxCount) => tx_wbuf[i] = None
  /\ \A i \in RxSlots : InRange(RDH, RDT, i, RxCount) => rx_wbuf[i] = None

\* C8 witness: the tail was moved past a slot and the device sees the
\* descriptor the send wrote for it.
C8_Witness ==
  /\ tx_res = "Ok"
  /\ TDH # TDT
  /\ Len(sent) = 2
  /\ tx_desc[Mod(TDT - 1, TxCount)].buffer_addr = BusAddr(sent[2])

\* C9: between calls, for every TX slot that is posted and whose descriptor
\* has not been written back by the device (it is still in the read layout,
\* DD clear), the slot's meta entry holds a request and the buffer address in
\* the descriptor is the bus address of that request.
C9_DescAddrIsMetaAddr ==
  tx_pc = "idle" =>
    \A i \in tx_owned :
      ~TxIsDone(tx_desc[i]) =>
        /\ tx_meta[i] # None
        /\ tx_desc[i].buffer_addr = BusAddr(tx_meta[i][1])

\* C9 witness: two posted slots, neither written back yet.
C9_Witness ==
  /\ tx_pc = "idle"
  /\ Cardinality({i \in tx_owned : ~TxIsDone(tx_desc[i])}) = 2
  /\ Len(returned) = 1

\* C10: a send of exactly pkt_size bytes on a ring that is not full goes on
\* to return Ok, and a send of more than pkt_size bytes returns
\* InvalidParameter whether or not the ring is full.
C10_LengthBoundary ==
  [][ /\ (tx_pc = "check" /\ tx_pc' # "check")
         => /\ (tx_cur.request.len > PACKET_SIZE) => tx_res' = "InvalidParameter"
            /\ (tx_cur.request.len = PACKET_SIZE /\ (TDT + 1) % TxCount # TDH)
                 => tx_pc' = "write"
            /\ (tx_res' = "InvalidParameter") => tx_cur.request.len > PACKET_SIZE
      /\ (tx_pc \in {"write", "mb", "tail"} /\ tx_pc' = "idle")
         => tx_res' = "Ok" /\ sent' = Append(sent, tx_cur.request)
    ]_vars

\* C10 witness: a pkt_size request was accepted, and an oversized one was
\* refused with InvalidParameter while the ring was full.
C10_Witness ==
  /\ tx_res = "InvalidParameter"
  /\ (TDT + 1) % TxCount = TDH
  /\ \E k \in 1 .. Len(sent) : sent[k].len = PACKET_SIZE

\* C11: a next_finished call returns None and changes neither the reclaim
\* cursor nor any meta entry nor any descriptor when the cursor equals TDH or
\* the descriptor at the cursor has DD = 0; in every other case it returns
\* the request held in meta[cursor], empties that entry and advances the
\* cursor by one modulo count, leaving the descriptors alone.
C11_NextFinishedFrame ==
  [][NextFinished =>
       IF finished = TDH \/ ~TxIsDone(View(tx_desc, tx_wbuf)[finished])
         THEN /\ nf_res' = None
              /\ finished' = finished
              /\ tx_meta' = tx_meta
              /\ tx_desc' = tx_desc
         ELSE /\ tx_meta[finished] # None
              /\ nf_res' = Some(tx_meta[finished][1])
              /\ tx_meta' = [tx_meta EXCEPT ![finished] = None]
              /\ finished' = (finished + 1) % TxCount
              /\ tx_desc' = tx_desc
    ]_vars

\* C12: ring initialisation (RX and TX) writes the descriptor base and
\* length, head = 0 and tail = 0 before it writes ENABLE to RXDCTL / TXDCTL;
\* it returns Ok only with the queue's ENABLE reading 1, and it writes no
\* tail register with a value other than 0.
WrittenBefore(i) == {wlog[j] : j \in 1 .. i - 1}
InitReturned(f) == stack # <<>> /\ Top.f = f /\ Top.i = 0
C12_RingInitOrder ==
  /\ \A i \in DOMAIN wlog :
       /\ (wlog[i][1] = "RXDCTL" /\ wlog[i][2] = "ENABLE")
            => {<<"RDBAL", "base">>, <<"RDBAH", "base">>, <<"RDLEN", "len">>,
                <<"RDH", "0">>, <<"RDT", "0">>} \subseteq WrittenBefore(i)
       /\ (wlog[i][1] = "TXDCTL" /\ wlog[i][2] = "ENABLE")
            => {<<"TDBAL", "base">>, <<"TDBAH", "base">>, <<"TDLEN", "len">>,
                <<"TDH", "0">>, <<"TDT", "0">>} \subseteq WrittenBefore(i)
       /\ wlog[i][1] \in {"RDT", "TDT"} => wlog[i][2] = "0"
  /\ (InitReturned("Rx::init") /\ ret.ok)
       => qen.rx.en /\ \E i \in DOMAIN wlog : wlog[i] = <<"RXDCTL", "ENABLE">>
  /\ (InitReturned("Tx::init") /\ ret.ok)
       => qen.tx.en /\ \E i \in DOMAIN wlog : wlog[i] = <<"TXDCTL", "ENABLE">>

\* C12 witness: inside open, Tx init has returned Ok after Rx init brought
\* its queue up.
C12_Witness ==
  /\ InitReturned("Tx::init")
  /\ ret.ok
  /\ Len(stack) = 3
  /\ qen.rx.en

\* C13: a ring init whose queue never reads ENABLE = 1 returns Err(Timeout)
\* and never Ok; the wait gives up after exactly 1000 polls, each followed by
\* a sleep of 1 ms.
WaitReturned(conds) ==
  stack # <<>> /\ Top.f = "wait_for" /\ Top.i = 0 /\ Top.a.cond \in conds
C13_EnableTimeout ==
  /\ (WaitReturned({"RXDCTL.ENABLE", "TXDCTL.ENABLE"}) /\ ~ret.ok)
       => /\ ret.e = Timeout
          /\ polls = 1000
          /\ sleeps = 1000
          /\ Top.a.interval = 1
  /\ (InitReturned("Rx::init") /\ ~qen.rx.en) => ~ret.ok /\ ret.e = Timeout
  /\ (InitReturned("Tx::init") /\ ~qen.tx.en) => ~ret.ok /\ ret.e = Timeout

\* C13 witness: the wait for TXDCTL.ENABLE has given up.
C13_Witness ==
  /\ WaitReturned({"TXDCTL.ENABLE"})
  /\ ret.e = Timeout
  /\ polls = 1000
  /\ ~qen.tx.en

\* C14: Mac::reset sets CTRL.RST and CTRL.PHY_RST and then polls CTRL.RST.
\* A poll that reads RST = 0 ends the wait with Ok at once; a poll that reads
\* RST = 1 is followed by a 1 ms sleep; after 1000 polls that read RST = 1 the
\* wait ends with Err(Timeout); Mac::reset returns what the wait returned.
ResetWaiting ==
  stack # <<>> /\ Top.f = "wait_for" /\ Top.a.cond = "CTRL.RST"
ResetState ==
  /\ (stack # <<>> /\ Top.f = "Mac::reset" /\ Top.i = 2)
       => (/\ wlog # <<>>
           /\ wlog[Len(wlog)][1] = "CTRL"
           /\ {"RST", "PHY_RST"} \subseteq wlog[Len(wlog)][2])
  /\ (ResetWaiting /\ Top.i = 0 /\ ~ret.ok)
       => (/\ ret.e = Timeout
           /\ polls = 1000
           /\ sleeps = 1000
           /\ Top.a.interval = 1)
  /\ (ResetWaiting /\ Top.i = 0 /\ ret.ok)
       => (/\ "RST" \notin mac.CTRL
           /\ polls = sleeps + 1
           /\ polls <= 1000)
  /\ InitReturned("Mac::reset")
       => (/\ ret.ok => "RST" \notin mac.CTRL
           /\ ~ret.ok => ret.e = Timeout)
C14_MacReset ==
  /\ []ResetState
  /\ [][(ResetWaiting /\ Top.i = 1 /\ stack' # stack /\ Top.n < 1000)
          => IF "RST" \notin mac.CTRL
               THEN ret' = Ok(Unit) /\ stack'[1].i = 0
               ELSE stack'[1].i = 2 /\ polls' = polls + 1]_vars

\* C14 witness: the reset wait has given up with RST still set.
C14_Witness ==
  /\ ResetWaiting
  /\ Top.i = 0
  /\ ret.e = Timeout
  /\ polls = 1000
  /\ "RST" \in mac.CTRL

\* C15: every routine that polls the hardware (MAC reset, queue enable, MDIC
\* read / write completion, PHY reset, wait for auto-negotiation) comes to an
\* end whatever the hardware does: a call that was started returns.
C15_PollingTerminates == (stack # <<>>) ~> (stack = <<>>)

\* C16: read_mdic / write_mdic that return with the E bit set in MDIC return
\* Err(Unknown("MDIC read error")), never Ok, also when READY is set in the
\* same MDIC value.
MdicReturned ==
  stack # <<>> /\ Top.f \in {"read_mdic", "write_mdic"} /\ Top.i = 0
C16_MdicErrorIsErr ==
  (MdicReturned /\ BitAt(mac.MDIC, MDIC_E) = 1)
    => (~ret.ok /\ ret.e = Unknown("MDIC read error"))

\* C17: at most one MDIO transaction is outstanding: no MDIC command is
\* written while an earlier one is in flight, a transaction in flight has
\* read_mdic / write_mdic sitting in its completion loop, and these return
\* only with READY or E set and nothing in flight.
C17_OneMdioTransaction ==
  /\ ~mdic_hist
  /\ phy.busy => (stack # <<>> /\ Top.f \in {"read_mdic", "write_mdic"} /\ Top.i = 2)
  /\ MdicReturned
       => (/\ ~phy.busy
           /\ BitAt(mac.MDIC, MDIC_READY) = 1 \/ BitAt(mac.MDIC, MDIC_E) = 1)

\* C17 witness: the second PHY routine's write has completed after its read.
C17_Witness ==
  /\ stack # <<>>
  /\ Top.f = "write_mdic"
  /\ Top.i = 0
  /\ ret.ok
  /\ ctl_calls = 2
  /\ ~phy.busy

\* C18: set_speed_and_duplex(true, true, d) fails with InvalidParameter for
\* both values of d and writes no MDIC write command.  (An MDIO error on the
\* read of PHY_CONTROL that precedes the check is let through.)
C18_InvalidSpeed ==
  (/\ InitReturned("Phy::set_speed_and_duplex")
   /\ Top.a.speed_1000
   /\ Top.a.speed_100)
    => (/\ ~ret.ok
        /\ ret.e \in {InvalidParameter, Unknown("MDIC read error")}
        /\ \A i \in DOMAIN wlog : wlog[i][1] # "MDIC")

\* C19: when the PHY status never shows AUTO_NEGOTIATION_COMPLETE, the wait
\* gives up with Timeout after exactly 30 status polls, each followed by a
\* sleep of 100 ms, and Igb::open returns that error without having written
\* a ring register or EIMS.
RingRegs ==
  {"RDBAL", "RDBAH", "RDLEN", "SRRCTL", "RDH", "RDT", "RXDCTL",
   "TDBAL", "TDBAH", "TDLEN", "TDH", "TDT", "TXDCTL"}
C19_AutoNegTimeout ==
  /\ (WaitReturned({"autoneg"}) /\ ~ret.ok)
       => (/\ ret.e = Timeout
           /\ polls = 30
           /\ sleeps = 30
           /\ Top.a.interval = 100)
  /\ (InitReturned("Igb::open")
        /\ BitAt(phy.PSTATUS, PSTATUS_AUTO_NEGOTIATION_COMPLETE) = 0)
       => ~ret.ok
  /\ (InitReturned("Igb::open") /\ ~ret.ok)
       => (/\ \A i \in DOMAIN wlog : wlog[i][1] \notin RingRegs \cup {"EIMS"}
           /\ mac.EIMS = {}
           /\ "RXEN" \notin mac.RCTL)

\* C19 witness: inside open the wait for auto-negotiation has given up.
C19_Witness ==
  /\ WaitReturned({"autoneg"})
  /\ Len(stack) = 3
  /\ stack[3].f = "Igb::open"
  /\ ret.e = Timeout
  /\ polls = 30

\* C20: in Igb::open interrupts are enabled (EIMS written) only after the MAC
\* reset was started and has completed, RCTL.RXEN is set only after
\* interrupts were enabled, and an open that returns Ok leaves RCTL.RXEN and
\* TCTL.EN both set.
OpenRunning == stack # <<>> /\ stack[Len(stack)].f = "Igb::open"
C20_OpenOrder ==
  OpenRunning =>
    /\ \A i \in DOMAIN wlog :
         /\ wlog[i][1] = "EIMS"
              => (/\ \E j \in 1 .. i - 1 :
                       wlog[j][1] = "CTRL" /\ "RST" \in wlog[j][2]
                  /\ "RST" \notin mac.CTRL)
         /\ (wlog[i][1] = "RCTL" /\ "RXEN" \in wlog[i][2])
              => \E j \in 1 .. i - 1 : wlog[j][1] = "EIMS"
    /\ (InitReturned("Igb::open") /\ ret.ok)
         => ("RXEN" \in mac.RCTL /\ "EN" \in mac.TCTL)

\* C21: when a ring init inside Igb::open has failed with the queue-enable
\* Timeout, open sets no RCTL.RXEN (RX init failed) and writes no EIMS, and
\* it returns that Timeout.  A ring init has failed when it is over, ENABLE
\* was written to the queue's control register and the queue is not enabled.
InStack(f) == \E k \in DOMAIN stack : stack[k].f = f
Wrote(r, v) == \E i \in DOMAIN wlog : wlog[i] = <<r, v>>
RxInitFailed ==
  OpenRunning /\ Wrote("RXDCTL", "ENABLE") /\ ~InStack("Rx::init") /\ ~qen.rx.en
TxInitFailed ==
  OpenRunning /\ Wrote("TXDCTL", "ENABLE") /\ ~InStack("Tx::init") /\ ~qen.tx.en
C21_RingInitFailureAborts ==
  /\ RxInitFailed => "RXEN" \notin mac.RCTL
  /\ (RxInitFailed \/ TxInitFailed)
       => (/\ \A i \in DOMAIN wlog : wlog[i][1] # "EIMS"
           /\ InitReturned("Igb::open") => (~ret.ok /\ ret.e = Timeout))

\* C22: Igb::open never panics: whichever of the four values
\* CTRL_EXT.LINK_MODE presents and whatever the other registers show, the
\* call ends with Ok or with an Err value.
C22_OpenNeverPanics == ctl_res.e # Panicked.e

\* C23: a ring's queue is disabled (ENABLE cleared in RXDCTL / TXDCTL, the
\* hardware queue off) before its descriptor memory and packet buffers are
\* released: in no state is ring memory freed while a queue is still enabled.
C23_DisabledBeforeFree ==
  ring_mem = "freed"
    => \A q \in {"rx", "tx"} : ~qen[q].req /\ ~qen[q].en

\* C24: interrupts_ack computes status = EICR AND EIMS and returns
\* queue_idx = bits 0..15 of status, tcp_timer = bit 30, other = bit 31; a
\* cause that is not enabled in EIMS is not reported, and the call writes no
\* register (the mask is as it was and nothing is logged as written).
AckStep == At({"irq_ack"}) /\ stack' # stack
Returned(f) == stack # <<>> /\ Top.f = f /\ Top.i = 0
C25_MaskedUntilEnabled ==
  /\ Returned("Mac::disable_interrupts")
       => (Wrote("EIMC", "MAX") /\ mac.EIMS = {})
  /\ (Returned("Mac::interrupts_ack") /\ irq_off)
       => (irq_msg.queue_idx = 0 /\ ~irq_msg.tcp_timer /\ ~irq_msg.other)
  /\ Returned("Mac::enable_interrupts") => mac.EIMS = 0 .. 31
C25_Witness ==
  /\ queue = "irq"
  /\ Returned("Mac::interrupts_ack")
  /\ irq_off
  /\ wlog = <<>>
  /\ mac.EICR # {}

\* C26: for every error_type_status, has_error is true exactly when the
\* extended-error field (bits 31:20) is non-zero: a write-back whose
\* extended-error field is zero has has_error = false whatever its
\* packet-type, RSS-type and status bits are.
Parsed == pure.f = "AdvRxDescWB"
C26_HasErrorIsExtError ==
  Parsed => (pure.wb.has_error <=> \E b \in 20 .. 31 : U32Bit(pure.ets, b))

\* C27: RX write-back parsing extracts done = bit 0, packet_type = bits 16:4
\* and rss_type = bits 19:17 of error_type_status, packet_length = bits 15:0
\* and vlan_tag = bits 31:16 of vlan_length.  vlan_length = 0x1234_0064 gives
\* length 100 and tag 0x1234; error_type_status = 0x0400_0001 gives done,
\* packet_type 0, rss_type 0 and has_error; the all-zero descriptor gives
\* neither done nor has_error.
FieldIs(x, n, v, lo) ==
  /\ x >= 0
  /\ x < Pow2(n)
  /\ \A k \in 0 .. n - 1 : (BitAt(x, k) = 1) <=> U32Bit(v, lo + k)
C27_WitnessFields ==
  /\ Parsed
  /\ pure.wb.packet_type = 4096 + 1
  /\ pure.wb.rss_type = 5
  /\ pure.wb.vlan_tag = 65535

\* C28: AdvTxDesc::new with kind Data yields cmd_type_len whose bits 19:0
\* hold len, whose dtype field (bits 23:20) is 0b0011 and whose command bits
\* (EOP 24, IFCS 25, IC 26, RS 27, DEXT 29, VLE 30, IDE 31) are set exactly
\* for the requested commands, whatever their order or repetition; bit 28 is
\* clear, the buffer address is stored unchanged and olinfo_status = 0.
Requested == {pure.cmd_ls[k] : k \in DOMAIN pure.cmd_ls}
C28_MakeTxData ==
  (pure.f = "AdvTxDesc::new" /\ pure.kind = "Data") =>
    /\ \A k \in 0 .. 19 :
         U32Bit(pure.tx.cmd_type_len, k) <=> (BitAt(pure.buffer_len, k) = 1)
    /\ pure.buffer_len < Pow2(20)
         => Field(pure.tx.cmd_type_len, 0, 20) = pure.buffer_len
    /\ U32Bit(pure.tx.cmd_type_len, 20)
    /\ U32Bit(pure.tx.cmd_type_len, 21)
    /\ ~U32Bit(pure.tx.cmd_type_len, 22)
    /\ ~U32Bit(pure.tx.cmd_type_len, 23)
    /\ \A b \in 24 .. 31 :
         U32Bit(pure.tx.cmd_type_len, b)
           <=> \E c \in Requested :
                 b = (CASE c = "EOP" -> 24 [] c = "IFCS" -> 25 [] c = "IC" -> 26
                        [] c = "RS" -> 27 [] c = "DEXT" -> 29 [] c = "VLE" -> 30
                        [] c = "IDE" -> 31)
    /\ pure.tx.buffer_addr = pure.buffer_addr
    /\ pure.tx.olinfo_status = 0
C28_Witness ==
  /\ pure.f = "AdvTxDesc::new"
  /\ pure.kind = "Data"
  /\ pure.cmd_ls = <<"IDE", "EOP", "IDE">>
  /\ pure.buffer_len = 60
  /\ pure.buffer_addr = 4096
  /\ pure.tx.cmd_type_len < 0

\* C29: AdvRxDescRead::new produces a header address whose bit 0 (DD) is 0
\* and a packet address whose bit 0 equals nse, with bits 63:1 of both equal
\* to the given addresses, and it rejects an odd pkt_addr or hdr_addr instead
\* of silently altering the address.
Odd(a) == a % 2 = 1
C29_MakeRxRead ==
  pure.f = "AdvRxDescRead::new" =>
    IF Odd(pure.pkt_addr) \/ Odd(pure.hdr_addr)
      THEN pure.panicked
      ELSE /\ ~pure.panicked
           /\ ~Odd(pure.rx.hdr_addr)
           /\ Odd(pure.rx.pkt_addr) <=> pure.nse
           /\ pure.rx.pkt_addr \div 2 = pure.pkt_addr \div 2
           /\ pure.rx.hdr_addr \div 2 = pure.hdr_addr \div 2

\* C30: for each valid combination set_speed_and_duplex writes a PHY control
\* value whose speed bits (MSB = bit 6, LSB = bit 13) are 1,0 for 1000 Mb/s,
\* 0,1 for 100 Mb/s and 0,0 for 10 Mb/s, whose duplex bit 8 equals
\* full_duplex and whose other bits equal the value read from the control
\* register just before; that value goes to write_mdic for PHY_CONTROL.
AtSpeedWrite ==
  /\ queue = "ctl"
  /\ stack # <<>>
  /\ Top.f = "Phy::set_speed_and_duplex"
  /\ Top.i = 5
SpeedWriteCalled ==
  /\ queue = "ctl"
  /\ Len(stack) >= 2
  /\ Top.f = "write_mdic"
  /\ stack[2].f = "Phy::set_speed_and_duplex"
C30_SpeedAndDuplex ==
  /\ AtSpeedWrite =>
       /\ ~(Top.a.speed_1000 /\ Top.a.speed_100)
       /\ BitAt(Top.x, 6) = 1 <=> Top.a.speed_1000
       /\ BitAt(Top.x, 13) = 1 <=> Top.a.speed_100
       /\ BitAt(Top.x, 8) = 1 <=> Top.a.full_duplex
       /\ \A b \in (0 .. 15) \ {6, 8, 13} :
            BitAt(Top.x, b) = BitAt(MdicData(mac.MDIC), b)
  /\ SpeedWriteCalled =>
       (Top.a.offset = PHY_CONTROL /\ Top.a.data = stack[2].x)
C30_Witness ==
  /\ SpeedWriteCalled
  /\ stack[2].a = [speed_1000 |-> FALSE, speed_100 |-> TRUE, full_duplex |-> FALSE]
  /\ BitAt(Top.a.data, 12) = 1
  /\ BitAt(Top.a.data, 13) = 1
  /\ BitAt(Top.a.data, 6) = 0
  /\ BitAt(phy.PCTRL, 6) = 1
  /\ BitAt(phy.PCTRL, 8) = 1

\* C31: decoding a TX write-back status is the inverse of encoding its DD
\* bit: for every status word AdvTxDescWB::is_done is true exactly when bit 0
\* of status is 1, whatever the other bits of status and the other fields of
\* the descriptor are.
C31_TxDoneIsBit0 ==
  pure.f = "AdvTxDescWB" => (pure.tx_done <=> U32Bit(pure.tx.olinfo_status, 0))
C31_Witness ==
  /\ pure.f = "AdvTxDescWB"
  /\ pure.tx.olinfo_status < 0
  /\ U32Bit(pure.tx.olinfo_status, 1)
  /\ ~U32Bit(pure.tx.olinfo_status, 0)
  /\ pure.tx.buffer_addr = 1
  /\ pure.tx.cmd_type_len = -1
  /\ ~pure.tx_done

\* C32: next_finished never panics: in every state reached by send, device
\* progress and next_finished, whenever the reclaim cursor differs from TDH
\* and the descriptor at the cursor has DD = 1, meta[cursor] holds a request,
\* so `expect("Request should be set")` does not fail.
C32_NextFinishedNeverPanics ==
  /\ tx_pc # "panic"
  /\ (finished # TDH /\ TxIsDone(View(tx_desc, tx_wbuf)[finished]))
       => tx_meta[finished] # None

\* C33: posting a descriptor into a slot clears that slot's DD bit (TX:
\* olinfo_status = 0 over the write-back status; RX: hdr_addr = 0 over
\* error_type_status), so a DD bit of an earlier lap is never seen for the new
\* submission: the posting store carries DD = 0, and a slot the device has
\* still to process, one in [head, tail), never reads DD = 1.
TxPostClearsDD ==
  /\ \A i \in TxSlots : tx_wbuf[i] # None => ~TxIsDone(tx_wbuf[i][1])
  /\ \A i \in TxSlots :
       InRange(TDH, TDT, i, TxCount) => ~TxIsDone(View(tx_desc, tx_wbuf)[i])
RxPostClearsDD ==
  /\ \A i \in RxSlots :
       rx_wbuf[i] # None => rx_wbuf[i][1].error_type_status % 2 = 0
  /\ \A i \in RxSlots :
       InRange(RDH, RDT, i, RxCount)
         => View(rx_desc, rx_wbuf)[i].error_type_status % 2 = 0
C33_PostClearsDD == TxPostClearsDD /\ RxPostClearsDD

\* C34: if is_queue_full() returned false, the caller's next send of a
\* request with length <= pkt_size succeeds, whatever head advances the
\* device makes between the two calls: device activity never turns a ring
\* that is not full into a full one.
C34_NotFullThenSendOk ==
  [][ /\ (tx_pc = "check" /\ tx_pc' # "check" /\ qf_res = "free"
            /\ tx_cur.request.len <= PACKET_SIZE)
         => (tx_res' # "NoMemory" /\ tx_res' # "InvalidParameter" /\ tx_pc' = "write")
      /\ (TDH' # TDH /\ (TDT + 1) % TxCount # TDH)
         => (TDT' + 1) % TxCount # TDH'
      /\ (tx_pc \in {"write", "mb", "tail"} /\ tx_pc' \notin {"write", "mb", "tail"})
         => tx_res' = "Ok"
    ]_vars
\* C34 witness: the answer was "not full" with one free slot left, the device
\* has since emptied the ring, and the send is past its check.
C34_Witness ==
  /\ tx_pc = "write"
  /\ Len(sent) = 2
  /\ TDH = TDT
  /\ tx_cur.tail = 2

\* C35: a send that fails (InvalidParameter or NoMemory) leaves the TX ring
\* unchanged: from its call to its return no descriptor is written, no meta
\* entry is modified, TDT is not written and the reclaim cursor keeps its
\* value.
SendStep == tx_pc # "idle" /\ tx_pc' # tx_pc
C35_FailedSendChangesNothing ==
  [][ /\ (tx_pc = "idle" /\ tx_pc' = "check")
         => UNCHANGED <<tx_desc, tx_wbuf, tx_meta, TDT, finished, sent>>
      /\ (SendStep /\ tx_res' \in {"InvalidParameter", "NoMemory"})
         => (/\ tx_pc = "check"
             /\ tx_pc' = "idle"
             /\ UNCHANGED <<tx_desc, tx_wbuf, tx_meta, TDT, finished, sent>>)
    ]_vars
\* C35 witness: a send was refused as full on a ring that holds requests, and
\* an oversized one was refused too.
C35_Witness ==
  /\ tx_pc = "idle"
  /\ tx_res = "NoMemory"
  /\ \E i \in TxSlots : tx_meta[i] # None
  /\ TDT # 0
C35_WitnessOversized ==
  /\ tx_pc = "idle"
  /\ tx_res = "InvalidParameter"
  /\ \E i \in TxSlots : tx_meta[i] # None

\* C36: send never writes the descriptor or the meta entry of a slot the
\* device still owns: the slot it writes is index TDT, which is never inside
\* [TDH, TDT) modulo count whatever head advances are interleaved; so every
\* in-flight buffer, one whose slot is in [TDH, TDT), stays with the ring
\* (its meta entry holds the request) until the device has moved past it.
SendWritesTailOnly ==
  tx_pc = "write"
    => (/\ SendSlot(tx_cur) = TDT
        /\ ~InRange(TDH, TDT, SendSlot(tx_cur), TxCount))
InFlightOwned ==
  \A i \in TxSlots : InRange(TDH, TDT, i, TxCount) => tx_meta[i] # None
C36_SendKeepsOwnership == SendWritesTailOnly /\ InFlightOwned

\* C37: wait_for(f, interval, Some(n)) evaluates f at most n times; when an
\* evaluation returns true it returns Ok at once, after one sleep for each
\* evaluation before it; otherwise it returns Timeout after n evaluations and
\* n sleeps; with n = 0 it returns Timeout without evaluating f.  A queue
\* whose ENABLE bit shows after 500 sleeps is reported enabled by poll 501.
C37_WaitFor ==
  Returned("wait_for") =>
    /\ polls <= Top.a.try_count
    /\ ret.ok => (polls >= 1 /\ sleeps = polls - 1)
    /\ ~ret.ok => (/\ ret.e = Timeout
                   /\ polls = Top.a.try_count
                   /\ sleeps = Top.a.try_count)
    /\ Top.a.try_count = 0 => (~ret.ok /\ polls = 0 /\ sleeps = 0)
C37_Witness ==
  /\ Returned("wait_for")
  /\ Top.a.cond = "RXDCTL.ENABLE"
  /\ ret.ok
  /\ sleeps = 500
  /\ polls = 501
\* the second evaluation of a caller's closure is the first to return true
C37_WitnessSecond ==
  /\ Returned("wait_for")
  /\ Top.a.cond = "f"
  /\ Top.a.try_count = 2
  /\ ret.ok
  /\ polls = 2
  /\ sleeps = 1
C37_WitnessZero ==
  /\ Returned("wait_for")
  /\ Top.a.try_count = 0
  /\ ret.e = Timeout

\* C38: wait_for_auto_negotiation_complete counts a failed status read
\* (MDIC completes with E) as "not complete".  The wait returns Ok or
\* Timeout, never the MDIC error; a Timeout comes after exactly 30 attempts;
\* and the attempt whose read failed goes on to the sleep of that iteration,
\* so a wait whose every read fails can only end at the 30th attempt.
AutonegWait == stack # <<>> /\ Top.f = "wait_for" /\ Top.a.cond = "autoneg"
AutonegWaitResult ==
  /\ (AutonegWait /\ Top.i = 0) =>
       /\ ret.ok \/ ret.e = Timeout
       /\ ~ret.ok => polls = AUTONEG_TRY_COUNT /\ sleeps = AUTONEG_TRY_COUNT
  /\ Returned("Phy::wait_for_auto_negotiation_complete") =>
       ret.ok \/ ret.e = Timeout
FailedReadIsNotComplete ==
  (AutonegWait /\ At({"wf_judge"}) /\ ~ret.ok /\ stack' # stack) =>
    /\ stack' = Goto(2)
    /\ polls' = polls + 1
    /\ polls' <= AUTONEG_TRY_COUNT
    /\ ret' = ret
C38_MdicErrorIsNotComplete ==
  []AutonegWaitResult /\ [][FailedReadIsNotComplete]_vars
\* the 30th status read fails while the PHY has finished negotiating, and
\* the wait ends with Timeout
C38_Witness ==
  /\ AutonegWait /\ Top.i = 0
  /\ ret = Err(Timeout)
  /\ polls = AUTONEG_TRY_COUNT
  /\ BitAt(mac.MDIC, MDIC_E) = 1 /\ BitAt(mac.MDIC, MDIC_READY) = 0
  /\ MdicRegAddr(mac.MDIC) = PHY_STATUS
  /\ BitAt(phy.PSTATUS, PSTATUS_AUTO_NEGOTIATION_COMPLETE) = 1

\* C39: configure_msix_mode and configure_legacy_mode change only the
\* Multiple_MSIX, EIAME and PBA_Support fields of GPIE: the NSICR and
\* LL_Interval fields hold after the call's register access what they held
\* before it, so an earlier set_nsicr / set_ll_interval survives.
ConfigureModeStep ==
  /\ At({"gpie_write"})
  /\ Top.f \in {"Mac::configure_msix_mode", "Mac::configure_legacy_mode"}
  /\ stack' # stack
C39_ConfigureKeepsOtherFields ==
  [][ConfigureModeStep =>
       /\ Field(mac'.GPIE, GPIE_NSICR.off, GPIE_NSICR.n)
            = Field(mac.GPIE, GPIE_NSICR.off, GPIE_NSICR.n)
       /\ Field(mac'.GPIE, GPIE_LL_Interval.off, GPIE_LL_Interval.n)
            = Field(mac.GPIE, GPIE_LL_Interval.off, GPIE_LL_Interval.n)]_vars

\* C40: power_up writes back to PHY_CONTROL the value it read with only
\* POWER_DOWN (bit 11) cleared, enable_auto_negotiation the value it read
\* with only AUTO_NEGOTIATION_ENABLE (bit 12) and RESTART_AUTO_NEGOTIATION
\* (bit 9) set; every other bit is written as it was read.  When the read
\* fails the routine returns that error and no write is issued.
PhyRmwCalled(f) ==
  /\ Len(stack) >= 2
  /\ Top.f = "write_mdic"
  /\ Top.i = 1
  /\ stack[2].f = f
PhyRmwWrites(f, set, clr) ==
  PhyRmwCalled(f) =>
    /\ Top.a.offset = PHY_CONTROL
    /\ MdicOp(mac.MDIC) = MDIC_OP_Read
    /\ MdicRegAddr(mac.MDIC) = PHY_CONTROL
    /\ \A b \in set : BitAt(Top.a.data, b) = 1
    /\ \A b \in clr : BitAt(Top.a.data, b) = 0
    /\ \A b \in (0 .. 15) \ (set \cup clr) :
         BitAt(Top.a.data, b) = BitAt(MdicData(mac.MDIC), b)
PhyRmwReadFailed ==
  /\ Len(stack) >= 2
  /\ Top.f = "read_mdic"
  /\ Top.i = 0
  /\ ~ret.ok
  /\ stack[2].f \in {"Phy::power_up", "Phy::enable_auto_negotiation"}
PhyRmwNoWriteAfterFailedRead ==
  (PhyRmwReadFailed /\ stack' # stack) =>
    /\ stack' = <<[stack[2] EXCEPT !.i = 0]>> \o Tail(Tail(stack))
    /\ ret' = ret
    /\ wlog' = wlog
C40_PhyReadModifyWrite ==
  /\ [](/\ PhyRmwWrites("Phy::power_up", {}, {PCTRL_POWER_DOWN})
        /\ PhyRmwWrites("Phy::enable_auto_negotiation",
                        {PCTRL_AUTO_NEGOTIATION_ENABLE,
                         PCTRL_RESTART_AUTO_NEGOTIATION}, {}))
  /\ [][PhyRmwNoWriteAfterFailedRead]_vars
\* power_up on a powered-down PHY: 0x1940 was read, 0x1140 is written
C40_Witness ==
  /\ PhyRmwCalled("Phy::power_up")
  /\ MdicData(mac.MDIC) = 6464
  /\ Top.a.data = 4416
\* enable_auto_negotiation after a fixed speed was set
C40_WitnessAutoNeg ==
  /\ PhyRmwCalled("Phy::enable_auto_negotiation")
  /\ BitAt(MdicData(mac.MDIC), PCTRL_AUTO_NEGOTIATION_ENABLE) = 0
  /\ BitAt(MdicData(mac.MDIC), PCTRL_SPEED_SELECTION_LSB) = 1
  /\ BitAt(Top.a.data, PCTRL_AUTO_NEGOTIATION_ENABLE) = 1
  /\ BitAt(Top.a.data, PCTRL_RESTART_AUTO_NEGOTIATION) = 1
  /\ BitAt(Top.a.data, PCTRL_SPEED_SELECTION_LSB) = 1
\* power_up whose read of PHY_CONTROL failed has returned the error
C40_WitnessReadFailed ==
  /\ Returned("Phy::power_up")
  /\ ~ret.ok
  /\ MdicOp(mac.MDIC) = MDIC_OP_Read
  /\ BitAt(mac.MDIC, MDIC_E) = 1
  /\ ~Wrote("MDIC", "Write")

====
